---- MODULE Spec2Model ----
(***************************************************************************)
(* A model of kdlpy: the recursive-descent KDL parser (kdl/parsefuncs.py), *)
(* the character source (kdl/stream.py), the parse results                 *)
(* (kdl/result.py) and the printer of the value model (kdl/types.py).      *)
(*                                                                         *)
(* A text is a sequence of characters; a character is a string naming one  *)
(* codepoint ("a", " ", "\n", or a name such as "NEL" for U+0085).  The    *)
(* empty string "" is the end-of-input sentinel of Stream.__getitem__.     *)
(* Indices are 0-based as in the source.                                   *)
(***************************************************************************)
EXTENDS Integers, Sequences, FiniteSets, TLC

VARIABLES
    input,      \* the text handed to parse
    gen,        \* the abstract shape the text was rendered from (or NoGen)
    parseConfig,    \* the ParseConfig in force
    printConfig,    \* the PrintConfig in force
    pc,         \* "start", "parsed", "printed", "reparsed", "probed"
    out,        \* outcome of parse(input)
    text,       \* Document.print(pconfig) of the parsed document
    out2,       \* outcome of parse(text)
    probe       \* a production called directly: [prod, start, hashes, res]

vars == <<input, gen, parseConfig, printConfig, pc, out, text, out2, probe>>

(***************************************************************************)
(* Characters and their codepoints.                                        *)
(***************************************************************************)
CodePoint ==
    ("a" :> 97) @@ ("b" :> 98) @@ ("c" :> 99) @@ ("d" :> 100) @@ ("e" :> 101) @@ ("n" :> 110)
    @@ ("r" :> 114) @@ ("t" :> 116) @@ ("u" :> 117) @@ ("x" :> 120)
    @@ ("o" :> 111) @@ ("s" :> 115) @@ ("f" :> 102) @@ ("l" :> 108)
    @@ ("i" :> 105) @@ ("g" :> 103) @@ ("m" :> 109) @@ ("p" :> 112)
    @@ ("v" :> 118) @@ (":" :> 58) @@ ("T" :> 84) @@ ("E" :> 69)
    @@ ("A" :> 65) @@ ("F" :> 70) @@ ("I" :> 73) @@ ("L" :> 76) @@ ("N" :> 78)
    @@ ("R" :> 82) @@ ("S" :> 83) @@ ("U" :> 85)
    @@ ("0" :> 48) @@ ("1" :> 49) @@ ("2" :> 50) @@ ("3" :> 51)
    @@ ("4" :> 52) @@ ("5" :> 53) @@ ("6" :> 54)
    @@ ("7" :> 55) @@ ("8" :> 56) @@ ("9" :> 57)
    @@ (" " :> 32) @@ ("\t" :> 9) @@ ("\n" :> 10) @@ ("\r" :> 13)
    @@ ("\f" :> 12) @@ ("VT" :> 11) @@ ("NEL" :> 133) @@ ("NBSP" :> 160)
    @@ ("LS" :> 8232) @@ ("PS" :> 8233) @@ ("BOM" :> 65279) @@ ("BS" :> 8)
    @@ ("DEL" :> 127) @@ ("LRM" :> 8206)
    @@ ("\"" :> 34) @@ ("#" :> 35) @@ ("'" :> 39) @@ ("(" :> 40) @@ (")" :> 41)
    @@ ("*" :> 42) @@ ("+" :> 43) @@ ("," :> 44) @@ ("-" :> 45) @@ ("." :> 46)
    @@ ("/" :> 47) @@ (";" :> 59) @@ ("<" :> 60) @@ ("=" :> 61) @@ (">" :> 62)
    @@ ("[" :> 91) @@ ("\\" :> 92) @@ ("]" :> 93) @@ ("_" :> 95)
    @@ ("{" :> 123) @@ ("}" :> 125)

ord(ch) == CodePoint[ch]

(***************************************************************************)
(* kdl/stream.py: the character source.                                    *)
(***************************************************************************)
\* Stream(chars, config): the text and the ParseConfig it is parsed under.
Stream(chars, cfg) == [chars |-> chars, config |-> cfg]

\* Stream.__getitem__ with an int key: "" for an index outside the text.
S(s, i) == IF i < 0 \/ i >= Len(s.chars) THEN "" ELSE s.chars[i + 1]

\* Stream.__getitem__ with a slice key: s[lo:hi], clamped.
Slice(s, lo, hi) ==
    LET a == IF lo < 0 THEN 0 ELSE lo
        b == IF hi < 0 THEN 0 ELSE IF hi > Len(s.chars) THEN Len(s.chars) ELSE hi
    IN  IF a >= b THEN <<>> ELSE SubSeq(s.chars, a + 1, b)

\* Stream.eof
eof(s, i) == i >= Len(s.chars)

(***************************************************************************)
(* kdl/result.py: Result(value, i, err).  k = "ok" is a result without     *)
(* err, k = "fail" is Result.fail (a soft failure), k = "raise" is an      *)
(* exception leaving the production: v names its class, i the index given  *)
(* to ParseError.                                                          *)
(***************************************************************************)
None == <<"None">>

Ok(v, i) == [k |-> "ok", v |-> v, i |-> i]

Fail(index) == [k |-> "fail", v |-> None, i |-> index]

Raise(cls, i) == [k |-> "raise", v |-> cls, i |-> i]

valid(r) == r.k = "ok"

(***************************************************************************)
(* kdl/parsefuncs.py: character classes.                                   *)
(***************************************************************************)
isWSChar(ch) ==
    IF ch = "" THEN FALSE
    ELSE LET cp == ord(ch) IN
         \/ cp \in {9, 32, 160, 5760}
         \/ (8192 <= cp /\ cp <= 8202)
         \/ cp \in {8239, 8287, 12288}

isNewlineChar(ch) ==
    IF ch = "" THEN FALSE
    ELSE ord(ch) \in {10, 13, 133, 11, 12, 8232, 8233}

isLinespaceChar(ch) ==
    IF ch = "" THEN FALSE ELSE isWSChar(ch) \/ isNewlineChar(ch)

isDisallowedLiteralChar(ch) ==
    IF ch = "" THEN FALSE
    ELSE LET cp == ord(ch) IN
         \/ (0 <= cp /\ cp <= 8)
         \/ (14 <= cp /\ cp <= 31)
         \/ cp = 127
         \/ (55296 <= cp /\ cp <= 57343)
         \/ (8206 <= cp /\ cp <= 8207)
         \/ (8234 <= cp /\ cp <= 8238)
         \/ (8294 <= cp /\ cp <= 8297)
         \/ cp = 65279

isIdentChar(ch) ==
    IF ch = "" THEN FALSE
    ELSE IF ch \in {"(", ")", "{", "}", "[", "]", "/", "\\", "\"", "#", ";", "="}
    THEN FALSE
    ELSE IF isWSChar(ch) THEN FALSE
    ELSE IF isNewlineChar(ch) THEN FALSE
    ELSE IF isDisallowedLiteralChar(ch) THEN FALSE
    ELSE TRUE

isSign(ch) == ch # "" /\ ch \in {"+", "-"}

isDigit(ch) == ch # "" /\ ch \in {"0", "1", "2", "3", "4", "5", "6", "7", "8", "9"}

isBinaryDigit(ch) == ch # "" /\ ch \in {"0", "1"}

isOctalDigit(ch) == ch # "" /\ ch \in {"0", "1", "2", "3", "4", "5", "6", "7"}

isHexDigit(ch) ==
    ch # "" /\ ch \in {"0", "1", "2", "3", "4", "5", "6", "7", "8", "9",
                       "a", "b", "c", "d", "e", "f", "A", "B", "C", "D", "E", "F"}

RECURSIVE call(_, _, _)

(***************************************************************************)
(* kdl/parsefuncs.py: newlines, whitespace, comments, slashdash.           *)
(***************************************************************************)
parseNewline(s, start) ==
    IF S(s, start) = "\r" /\ S(s, start + 1) = "\n" THEN Ok(TRUE, start + 2)
    ELSE IF isNewlineChar(S(s, start)) THEN Ok(TRUE, start + 1)
    ELSE Fail(start)

RECURSIVE skipWSChars(_, _)
skipWSChars(s, i) == IF isWSChar(S(s, i)) THEN skipWSChars(s, i + 1) ELSE i

parseUnicodeSpace(s, start) ==
    IF ~isWSChar(S(s, start)) THEN Fail(start)
    ELSE Ok(TRUE, skipWSChars(s, start + 1))

RECURSIVE skipToLineEnd(_, _)
skipToLineEnd(s, i) ==
    IF ~isNewlineChar(S(s, i)) /\ ~eof(s, i) THEN skipToLineEnd(s, i + 1) ELSE i

parseSingleLineComment(s, start) ==
    IF ~(S(s, start) = "/" /\ S(s, start + 1) = "/") THEN Fail(start)
    ELSE Ok(TRUE, call("parseNewline", s, skipToLineEnd(s, start + 2)).i)

RECURSIVE parseBlockComment(_, _)
RECURSIVE blockCommentLoop(_, _, _)
\* the loop of a block comment that does not nest
RECURSIVE blockCommentLoop_flat(_, _, _)
blockCommentLoop_flat(s, start, i) ==
    IF eof(s, i) THEN Raise("ParseError", start)
    ELSE IF S(s, i) = "*" /\ S(s, i + 1) = "/" THEN Ok(TRUE, i + 2)
    ELSE blockCommentLoop_flat(s, start, i + 1)

\* the while loop of parseBlockComment, at index i of the comment opened at start
blockCommentLoop(s, start, i) ==
    IF eof(s, i) THEN Raise("ParseError", start)
    ELSE IF S(s, i) = "*" /\ S(s, i + 1) = "/" THEN Ok(TRUE, i + 2)
    ELSE IF S(s, i) = "/" /\ S(s, i + 1) = "*"
    THEN LET inner == call("parseBlockComment", s, i) IN
         IF inner.k = "raise" THEN inner ELSE blockCommentLoop(s, start, inner.i)
    ELSE blockCommentLoop(s, start, i + 1)

parseBlockComment(s, start) ==
    IF ~(S(s, start) = "/" /\ S(s, start + 1) = "*") THEN Fail(start)
    ELSE blockCommentLoop(s, start, start + 2)

RECURSIVE whitespaceLoop(_, _)
whitespaceLoop(s, i) ==
    LET sp == call("parseUnicodeSpace", s, i)
        bc == call("parseBlockComment", s, sp.i)
    IN  IF bc.k = "raise" THEN bc
        ELSE IF sp.k # "ok" /\ bc.k # "ok" THEN Ok(TRUE, bc.i)
        ELSE whitespaceLoop(s, bc.i)

parseWhitespace(s, start) ==
    LET r == whitespaceLoop(s, start) IN
    IF r.k = "raise" THEN r
    ELSE IF r.i = start THEN Fail(start)
    ELSE Ok(TRUE, r.i)

\* parseEscline taking the end of the text for a character
parseEscline_pastEnd(s, start) ==
    IF S(s, start) # "\\" THEN Fail(start)
    ELSE LET ws == call("parseWhitespace", s, start + 1) IN
         IF ws.k = "raise" THEN ws
         ELSE IF S(s, ws.i) = "\n" THEN Ok(TRUE, ws.i + 1)
         ELSE LET sl == call("parseSingleLineComment", s, ws.i) IN
              IF sl.k = "ok" THEN Ok(TRUE, sl.i)
              ELSE IF S(s, sl.i) = "" THEN Ok(TRUE, sl.i + 1)
              ELSE Fail(start)

parseEscline(s, start) ==
    IF S(s, start) # "\\" THEN Fail(start)
    ELSE LET ws == call("parseWhitespace", s, start + 1) IN
         IF ws.k = "raise" THEN ws
         ELSE IF S(s, ws.i) = "\n" THEN Ok(TRUE, ws.i + 1)
         ELSE LET sl == call("parseSingleLineComment", s, ws.i) IN
              IF sl.k = "ok" THEN Ok(TRUE, sl.i)
              ELSE IF S(s, sl.i) = "" THEN Ok(TRUE, sl.i)
              ELSE Fail(start)

RECURSIVE nodespaceLoop(_, _)
nodespaceLoop(s, i) ==
    LET ws == call("parseWhitespace", s, i) IN
    IF ws.k = "raise" THEN ws
    ELSE LET escline == call("parseEscline", s, ws.i) IN
         IF escline.k = "raise" THEN escline
         ELSE IF escline.k # "ok" THEN Ok(TRUE, escline.i)
         ELSE nodespaceLoop(s, escline.i)

parseNodespace(s, start) ==
    LET r == nodespaceLoop(s, start) IN
    IF r.k = "raise" THEN r
    ELSE IF r.i = start THEN Fail(start)
    ELSE Ok(TRUE, r.i)

RECURSIVE linespaceLoop(_, _)
linespaceLoop(s, i) ==
    LET nl == call("parseNewline", s, i)
        ws == call("parseNodespace", s, nl.i)
    IN  IF ws.k = "raise" THEN ws
        ELSE LET sc == call("parseSingleLineComment", s, ws.i) IN
             IF nl.k # "ok" /\ ws.k # "ok" /\ sc.k # "ok" THEN Ok(TRUE, sc.i)
             ELSE linespaceLoop(s, sc.i)

parseLinespace(s, start) ==
    LET r == linespaceLoop(s, start) IN
    IF r.k = "raise" THEN r
    ELSE IF r.i = start THEN Fail(start)
    ELSE Ok(TRUE, r.i)

RECURSIVE slashDashLoop(_, _)
slashDashLoop(s, i) ==
    LET s1 == call("parseLinespace", s, i) IN
    IF s1.k = "raise" THEN s1
    ELSE LET s2 == call("parseNodespace", s, s1.i) IN
         IF s2.k = "raise" THEN s2
         ELSE IF s1.k # "ok" /\ s2.k # "ok" THEN Ok(TRUE, s2.i)
         ELSE slashDashLoop(s, s2.i)

parseSlashDash(s, start) ==
    IF S(s, start) = "/" /\ S(s, start + 1) = "-"
    THEN slashDashLoop(s, start + 2)
    ELSE Fail(start)

(***************************************************************************)
(* kdl/types.py: the value model.  Every value is a record of the same     *)
(* shape: ty names the variant (or the Python type of a native scalar),    *)
(* num and scale the number num / 10^scale (scale = 0 for an int, scale    *)
(* >= 1 for a float; 1/0 for a Bool), exp the Decimal exponent, str the    *)
(* text of a string, tag the tag (None when absent).                       *)
(***************************************************************************)
Value(ty, num, scale, exp, str) ==
    [ty |-> ty, num |-> num, scale |-> scale, exp |-> exp, str |-> str, tag |-> None]

String(chars) == Value("String", 0, 0, 0, chars)
RawString(chars) == Value("RawString", 0, 0, 0, chars)
Binary(v) == Value("Binary", v, 0, 0, <<>>)
Octal(v) == Value("Octal", v, 0, 0, <<>>)
Hex(v) == Value("Hex", v, 0, 0, <<>>)
Decimal(m, scale, e) == Value("Decimal", m, scale, e, <<>>)
Bool(b) == Value("Bool", IF b THEN 1 ELSE 0, 0, 0, <<>>)
Null == Value("Null", 0, 0, 0, <<>>)
Infinity(sign) == Value("Infinity", sign, 0, 0, <<>>)
NaN == Value("NaN", 0, 0, 0, <<>>)

withTag(val, tag) == [val EXCEPT !.tag = tag]

isNumberish(val) == val.ty \in {"Binary", "Octal", "Hex", "Decimal"}
isStringish(val) == val.ty \in {"String", "RawString"}

(***************************************************************************)
(* kdl/parsefuncs.py: strings.                                             *)
(***************************************************************************)
RECURSIVE countRepeated(_, _, _)
countRepeated(s, i, ch) == IF S(s, i) = ch THEN 1 + countRepeated(s, i + 1, ch) ELSE 0

\* value is the count, i the index after the run
parseRepeatedChar(s, start, ch) ==
    LET count == countRepeated(s, start, ch) IN Ok(count, start + count)

HexDigitValue(ch) ==
    CASE ch = "0" -> 0 [] ch = "1" -> 1 [] ch = "2" -> 2 [] ch = "3" -> 3
      [] ch = "4" -> 4 [] ch = "5" -> 5 [] ch = "6" -> 6 [] ch = "7" -> 7
      [] ch = "8" -> 8 [] ch = "9" -> 9
      [] ch \in {"a", "A"} -> 10 [] ch \in {"b", "B"} -> 11
      [] ch \in {"c", "C"} -> 12 [] ch \in {"d", "D"} -> 13
      [] ch \in {"e", "E"} -> 14 [] ch \in {"f", "F"} -> 15

\* int(chars.replace("_", ""), radix) for a run of digits and underscores
RECURSIVE digitsValue(_, _, _)
digitsValue(chars, radix, acc) ==
    IF chars = <<>> THEN acc
    ELSE IF Head(chars) = "_" THEN digitsValue(Tail(chars), radix, acc)
    ELSE digitsValue(Tail(chars), radix, acc * radix + HexDigitValue(Head(chars)))

\* chr(): the character of a codepoint
chr(cp) ==
    IF \E c \in DOMAIN CodePoint : CodePoint[c] = cp
    THEN CHOOSE c \in DOMAIN CodePoint : CodePoint[c] = cp
    ELSE "U+" \o ToString(cp)

RECURSIVE skipHexDigits(_, _)
skipHexDigits(s, i) == IF isHexDigit(S(s, i)) THEN skipHexDigits(s, i + 1) ELSE i

RECURSIVE skipLinespaceChars(_, _)
skipLinespaceChars(s, i) ==
    IF isLinespaceChar(S(s, i)) THEN skipLinespaceChars(s, i + 1) ELSE i

\* parseEscape taking a unicode escape of any codepoint
parseEscape_anyCodepoint(s, start) ==
    IF S(s, start) # "\\" THEN Fail(start)
    ELSE LET ch == S(s, start + 1) IN
         IF ch = "n" THEN Ok(<<"\n">>, start + 2)
         ELSE IF ch = "r" THEN Ok(<<"\r">>, start + 2)
         ELSE IF ch = "t" THEN Ok(<<"\t">>, start + 2)
         ELSE IF ch = "\\" THEN Ok(<<"\\">>, start + 2)
         ELSE IF ch = "\"" THEN Ok(<<"\"">>, start + 2)
         ELSE IF ch = "b" THEN Ok(<<"BS">>, start + 2)
         ELSE IF ch = "f" THEN Ok(<<"\f">>, start + 2)
         ELSE IF ch = "s" THEN Ok(<<" ">>, start + 2)
         ELSE IF ch = "u"
         THEN IF S(s, start + 2) # "{" THEN Raise("ParseError", start)
              ELSE LET hexStart == start + 3
                       i == skipHexDigits(s, hexStart)
                       hexCount == i - hexStart
                       hexValue == digitsValue(Slice(s, hexStart, i), 16, 0)
                   IN  IF S(s, i) # "}" THEN Raise("ParseError", hexStart)
                       ELSE IF hexCount < 1 THEN Raise("ParseError", hexStart)
                       ELSE IF hexCount > 6 THEN Raise("ParseError", hexStart)
                       ELSE Ok(<<chr(hexValue)>>, i + 1)
         ELSE IF isLinespaceChar(ch)
         THEN Ok(<<>>, skipLinespaceChars(s, start + 2))
         ELSE Raise("ParseError", start)

\* the value of a successful result is the sequence of characters produced
\* (one character, or none for an escaped run of whitespace)
parseEscape(s, start) ==
    IF S(s, start) # "\\" THEN Fail(start)
    ELSE LET ch == S(s, start + 1) IN
         IF ch = "n" THEN Ok(<<"\n">>, start + 2)
         ELSE IF ch = "r" THEN Ok(<<"\r">>, start + 2)
         ELSE IF ch = "t" THEN Ok(<<"\t">>, start + 2)
         ELSE IF ch = "\\" THEN Ok(<<"\\">>, start + 2)
         ELSE IF ch = "\"" THEN Ok(<<"\"">>, start + 2)
         ELSE IF ch = "b" THEN Ok(<<"BS">>, start + 2)
         ELSE IF ch = "f" THEN Ok(<<"\f">>, start + 2)
         ELSE IF ch = "s" THEN Ok(<<" ">>, start + 2)
         ELSE IF ch = "u"
         THEN IF S(s, start + 2) # "{" THEN Raise("ParseError", start)
              ELSE LET hexStart == start + 3
                       i == skipHexDigits(s, hexStart)
                       hexCount == i - hexStart
                       hexValue == digitsValue(Slice(s, hexStart, i), 16, 0)
                   IN  IF S(s, i) # "}" THEN Raise("ParseError", hexStart)
                       ELSE IF hexCount < 1 THEN Raise("ParseError", hexStart)
                       ELSE IF hexCount > 6 THEN Raise("ParseError", hexStart)
                       ELSE IF 55296 <= hexValue /\ hexValue <= 57343
                       THEN Raise("ParseError", hexStart)
                       ELSE IF hexValue > 1114111 THEN Raise("ParseError", hexStart)
                       ELSE Ok(<<chr(hexValue)>>, i + 1)
         ELSE IF isLinespaceChar(ch)
         THEN Ok(<<>>, skipLinespaceChars(s, start + 2))
         ELSE Raise("ParseError", start)

RECURSIVE quotedLoop_atLeast(_, _, _, _, _)
\* quotedLoop of a raw string with the bug of ending the string at a quote
\* followed by hashCount hashes or more
quotedLoop_atLeast(s, start, hashCount, i, rawChars) ==
    IF S(s, i) = "\""
    THEN LET hashes == parseRepeatedChar(s, i + 1, "#") IN
         IF hashes.v < hashCount
         THEN quotedLoop_atLeast(s, start, hashCount, hashes.i,
                                 rawChars \o Slice(s, i, hashes.i))
         ELSE Ok(String(rawChars), i + 1 + hashCount)
    ELSE IF S(s, i) = "" THEN Raise("ParseError", start)
    ELSE IF valid(call("parseNewline", s, i)) THEN Raise("ParseError", start)
    ELSE quotedLoop_atLeast(s, start, hashCount, i + 1, Append(rawChars, S(s, i)))

RECURSIVE quotedLoop(_, _, _, _, _)
\* the while loop of parseQuotedString at index i with rawChars collected
quotedLoop(s, start, hashCount, i, rawChars) ==
    IF S(s, i) = "\"" /\ hashCount = 0
    THEN IF S(s, i + 1) = "#" THEN Raise("ParseError", start)
         ELSE IF S(s, i + 1) = "\"" THEN Raise("ParseError", start)
         ELSE Ok(String(rawChars), i + 1)
    ELSE IF S(s, i) = "\"" /\ hashCount > 0
    THEN IF S(s, i + 1) # "#"
         THEN quotedLoop(s, start, hashCount, i + 1, Append(rawChars, "\""))
         ELSE LET hashes == parseRepeatedChar(s, i + 1, "#")
                  endingHashCount == hashes.v
                  hashEnd == hashes.i
              IN  IF endingHashCount < hashCount
                  THEN quotedLoop(s, start, hashCount, hashEnd,
                                  rawChars \o Slice(s, i, hashEnd))
                  ELSE IF endingHashCount > hashCount
                  THEN Raise("ParseError", start)
                  ELSE Ok(String(rawChars), hashEnd)
    ELSE IF S(s, i) = "" THEN Raise("ParseError", start)
    ELSE IF valid(call("parseNewline", s, i)) THEN Raise("ParseError", start)
    ELSE IF S(s, i) = "\\" /\ hashCount = 0
    THEN LET esc == call("parseEscape", s, i) IN
         IF esc.k = "raise" THEN esc
         ELSE IF esc.k # "ok" THEN Raise("ParseError", esc.i)
         ELSE quotedLoop(s, start, hashCount, esc.i, rawChars \o esc.v)
    ELSE quotedLoop(s, start, hashCount, i + 1, Append(rawChars, S(s, i)))

parseQuotedString(s, start, hashCount) == quotedLoop(s, start, hashCount, start, <<>>)

MSLine(i, indent, txt) == [i |-> i, indent |-> indent, text |-> txt]

startswith(a, b) == Len(b) <= Len(a) /\ SubSeq(a, 1, Len(b)) = b

RECURSIVE join(_, _)
join(sep, parts) ==
    IF parts = <<>> THEN <<>>
    ELSE IF Len(parts) = 1 THEN parts[1]
    ELSE parts[1] \o sep \o join(sep, Tail(parts))

\* the for loop of a processMultiline that dedents the whitespace-only lines
\* as it does the others
RECURSIVE dedentLines_blankAsAny(_, _, _)
dedentLines_blankAsAny(lines, lastLine, done) ==
    IF lines = <<>> THEN Ok(done, 0)
    ELSE LET line == Head(lines) IN
         IF startswith(line.indent, lastLine.indent)
         THEN dedentLines_blankAsAny(Tail(lines), lastLine,
                  Append(done, SubSeq(line.indent, Len(lastLine.indent) + 1,
                                      Len(line.indent)) \o line.text))
         ELSE Raise("ParseError", line.i)

RECURSIVE dedentLines(_, _, _)
\* the for loop of processMultiline: the dedented lines, or the raise
dedentLines(lines, lastLine, done) ==
    IF lines = <<>> THEN Ok(done, 0)
    ELSE LET line == Head(lines) IN
         IF line.text = <<>>
         THEN dedentLines(Tail(lines), lastLine, Append(done, <<>>))
         ELSE IF startswith(line.indent, lastLine.indent)
         THEN dedentLines(Tail(lines), lastLine,
                  Append(done, SubSeq(line.indent, Len(lastLine.indent) + 1,
                                      Len(line.indent)) \o line.text))
         ELSE Raise("ParseError", line.i)

\* the value of a successful result is the string's characters
processMultiline(lines, lastLine) ==
    IF lastLine.text # <<>> THEN Raise("ParseError", lastLine.i)
    ELSE LET r == dedentLines(lines, lastLine, <<>>) IN
         IF r.k = "raise" THEN r ELSE Ok(join(<<"\n">>, r.v), 0)

RECURSIVE multilineLoop(_, _, _, _, _, _)
\* the while loop of parseMultilineString
multilineLoop(s, start, hashCount, i, lines, line) ==
    LET nl == call("parseNewline", s, i) IN
    IF nl.k = "ok"
    THEN LET afterNl == nl.i
             sp == call("parseUnicodeSpace", s, afterNl)
         IN  multilineLoop(s, start, hashCount, sp.i, Append(lines, line),
                           MSLine(afterNl, Slice(s, afterNl, sp.i), <<>>))
    ELSE IF S(s, i) = "\""
    THEN LET quoteStart == i
             quotes == parseRepeatedChar(s, i, "\"")
             quoteCount == quotes.v
             qi == quotes.i
         IN  IF quoteCount \in {1, 2}
             THEN multilineLoop(s, start, hashCount, qi, lines,
                      [line EXCEPT !.text = @ \o Slice(s, quoteStart, qi)])
             ELSE IF quoteCount > 4 THEN Raise("ParseError", quoteStart)
             ELSE IF quoteCount # 3 THEN Raise("AssertionError", quoteStart)
             ELSE IF hashCount = 0
             THEN IF S(s, qi) = "#" THEN Raise("ParseError", qi)
                  ELSE LET rawChars == processMultiline(lines, line) IN
                       IF rawChars.k = "raise" THEN rawChars
                       ELSE Ok(String(rawChars.v), qi)
             ELSE IF S(s, qi) # "#"
             THEN multilineLoop(s, start, hashCount, qi, lines,
                      [line EXCEPT !.text = @ \o <<"\"", "\"", "\"">>])
             ELSE LET hashes == parseRepeatedChar(s, qi, "#")
                      endingHashCount == hashes.v
                      hashEnd == hashes.i
                  IN  IF endingHashCount < hashCount
                      THEN multilineLoop(s, start, hashCount, hashEnd, lines,
                               [line EXCEPT !.text = @ \o Slice(s, quoteStart, hashEnd)])
                      ELSE IF endingHashCount > hashCount
                      THEN Raise("ParseError", start)
                      ELSE LET rawChars == processMultiline(lines, line) IN
                           IF rawChars.k = "raise" THEN rawChars
                           ELSE Ok(String(rawChars.v), hashEnd)
    ELSE IF S(s, i) = "" THEN Raise("ParseError", start)
    ELSE IF S(s, i) = "\\" /\ hashCount = 0
    THEN LET esc == call("parseEscape", s, i) IN
         IF esc.k = "raise" THEN esc
         ELSE IF esc.k # "ok" THEN Raise("ParseError", esc.i)
         ELSE multilineLoop(s, start, hashCount, esc.i, lines,
                  [line EXCEPT !.text = @ \o esc.v])
    ELSE multilineLoop(s, start, hashCount, i + 1, lines,
             [line EXCEPT !.text = Append(@, S(s, i))])

parseMultilineString(s, start, hashCount) ==
    LET nl == call("parseNewline", s, start) IN
    IF nl.k # "ok" THEN Raise("ParseError", start)
    ELSE LET sp == call("parseUnicodeSpace", s, nl.i) IN
         multilineLoop(s, start, hashCount, sp.i, <<>>,
                       MSLine(nl.i, Slice(s, nl.i, sp.i), <<>>))

parseIdentStart(s, start) ==
    IF ~isIdentChar(S(s, start)) THEN Fail(start)
    ELSE IF isDigit(S(s, start)) THEN Fail(start)
    ELSE IF isSign(S(s, start)) /\ isDigit(S(s, start + 1)) THEN Fail(start)
    ELSE IF isSign(S(s, start)) /\ S(s, start + 1) = "." /\ isDigit(S(s, start + 2))
    THEN Fail(start)
    ELSE IF S(s, start) = "." /\ isDigit(S(s, start + 1)) THEN Fail(start)
    ELSE Ok(S(s, start), start + 1)

RECURSIVE skipIdentChars(_, _)
skipIdentChars(s, i) == IF isIdentChar(S(s, i)) THEN skipIdentChars(s, i + 1) ELSE i

parseBareIdent(s, start) ==
    LET res == call("parseIdentStart", s, start) IN
    IF res.k # "ok" THEN Fail(start)
    ELSE LET i == skipIdentChars(s, res.i) IN Ok(Slice(s, start, i), i)

\* str.lower() of one character of the alphabet
lowerChar(ch) ==
    CASE ch = "A" -> "a" [] ch = "E" -> "e" [] ch = "F" -> "f" [] ch = "I" -> "i"
      [] ch = "L" -> "l" [] ch = "N" -> "n" [] ch = "R" -> "r" [] ch = "S" -> "s"
      [] ch = "T" -> "t" [] ch = "U" -> "u" [] OTHER -> ch

lower(chars) == [n \in 1..Len(chars) |-> lowerChar(chars[n])]

KeywordWords ==
    { <<"t", "r", "u", "e">>, <<"f", "a", "l", "s", "e">>, <<"n", "u", "l", "l">>,
      <<"i", "n", "f">>, <<"-", "i", "n", "f">>, <<"n", "a", "n">> }

\* parseIdentString comparing the identifier as written with the keywords
parseIdentString_asWritten(s, start) ==
    LET res == call("parseBareIdent", s, start) IN
    IF res.k # "ok" THEN Fail(start)
    ELSE IF res.v \in KeywordWords THEN Raise("ParseError", start)
    ELSE Ok(String(res.v), res.i)

parseIdentString(s, start) ==
    LET res == call("parseBareIdent", s, start) IN
    IF res.k # "ok" THEN Fail(start)
    ELSE IF lower(res.v) \in KeywordWords THEN Raise("ParseError", start)
    ELSE Ok(String(res.v), res.i)

parseString(s, start) ==
    LET hashes == parseRepeatedChar(s, start, "#")
        hashCount == hashes.v
        quotes == parseRepeatedChar(s, hashes.i, "\"")
        quoteCount == quotes.v
        i == quotes.i
    IN  IF quoteCount = 0
        THEN IF hashCount = 0 THEN call("parseIdentString", s, i) ELSE Fail(start)
        ELSE IF quoteCount = 1 THEN parseQuotedString(s, i, hashCount)
        ELSE IF quoteCount = 2 THEN parseQuotedString(s, i - 1, hashCount)
        ELSE IF quoteCount = 3 THEN parseMultilineString(s, i, hashCount)
        ELSE Raise("ParseError", start)

(***************************************************************************)
(* kdl/parsefuncs.py: numbers and keywords.                                *)
(***************************************************************************)
parseSign(s, start) ==
    IF S(s, start) = "+" THEN Ok(1, start + 1)
    ELSE IF S(s, start) = "-" THEN Ok(-1, start + 1)
    ELSE Fail(start)

isNumberStart(s, start) ==
    IF isDigit(S(s, start)) THEN TRUE
    ELSE IF isSign(S(s, start)) /\ isDigit(S(s, start + 1)) THEN TRUE
    ELSE FALSE

RECURSIVE skipBinaryDigits(_, _)
skipBinaryDigits(s, end) ==
    IF isBinaryDigit(S(s, end)) \/ S(s, end) = "_" THEN skipBinaryDigits(s, end + 1) ELSE end

RECURSIVE skipOctalDigits(_, _)
skipOctalDigits(s, end) ==
    IF isOctalDigit(S(s, end)) \/ S(s, end) = "_" THEN skipOctalDigits(s, end + 1) ELSE end

RECURSIVE skipHexNumberDigits(_, _)
skipHexNumberDigits(s, end) ==
    IF isHexDigit(S(s, end)) \/ S(s, end) = "_" THEN skipHexNumberDigits(s, end + 1) ELSE end

RECURSIVE skipDigits(_, _)
skipDigits(s, end) ==
    IF isDigit(S(s, end)) \/ S(s, end) = "_" THEN skipDigits(s, end + 1) ELSE end

parseBinaryNumber(s, start) ==
    LET sg == call("parseSign", s, start)
        sign == IF sg.k = "ok" THEN sg.v ELSE 1
        i == sg.i + 2
    IN  IF ~(S(s, sg.i) = "0" /\ S(s, sg.i + 1) = "b") THEN Fail(start)
        ELSE IF ~isBinaryDigit(S(s, i)) THEN Raise("ParseError", i)
        ELSE LET end == skipBinaryDigits(s, i + 1) IN
             Ok(Binary(digitsValue(Slice(s, i, end), 2, 0) * sign), end)

parseOctalNumber(s, start) ==
    LET sg == call("parseSign", s, start)
        sign == IF sg.k = "ok" THEN sg.v ELSE 1
        i == sg.i + 2
    IN  IF ~(S(s, sg.i) = "0" /\ S(s, sg.i + 1) = "o") THEN Fail(start)
        ELSE IF ~isOctalDigit(S(s, i)) THEN Raise("ParseError", i)
        ELSE LET end == skipOctalDigits(s, i + 1) IN
             Ok(Octal(digitsValue(Slice(s, i, end), 8, 0) * sign), end)

\* parseHexNumber without the multiplication by the sign
parseHexNumber_magnitude(s, start) ==
    LET sg == call("parseSign", s, start)
        i == sg.i + 2
    IN  IF ~(S(s, sg.i) = "0" /\ S(s, sg.i + 1) = "x") THEN Fail(start)
        ELSE IF ~isHexDigit(S(s, i)) THEN Raise("ParseError", i)
        ELSE LET end == skipHexNumberDigits(s, i + 1) IN
             Ok(Hex(digitsValue(Slice(s, i, end), 16, 0)), end)

parseHexNumber(s, start) ==
    LET sg == call("parseSign", s, start)
        sign == IF sg.k = "ok" THEN sg.v ELSE 1
        i == sg.i + 2
    IN  IF ~(S(s, sg.i) = "0" /\ S(s, sg.i + 1) = "x") THEN Fail(start)
        ELSE IF ~isHexDigit(S(s, i)) THEN Raise("ParseError", i)
        ELSE LET end == skipHexNumberDigits(s, i + 1) IN
             Ok(Hex(digitsValue(Slice(s, i, end), 16, 0) * sign), end)

parseDigits(s, start) ==
    IF ~isDigit(S(s, start)) THEN Fail(start)
    ELSE Ok(TRUE, skipDigits(s, start + 1))

\* the number of digits in a run of digits and underscores
RECURSIVE countDigits(_)
countDigits(chars) ==
    IF chars = <<>> THEN 0
    ELSE (IF Head(chars) = "_" THEN 0 ELSE 1) + countDigits(Tail(chars))

\* a float keeps one digit after the point at least: 1.50 is 1.5, 1.00 is 1.0
RECURSIVE normalizeFloat(_, _)
normalizeFloat(num, scale) ==
    IF scale > 1 /\ num % 10 = 0 THEN normalizeFloat(num \div 10, scale - 1)
    ELSE [num |-> num, scale |-> scale]

\* int(chars, 10) of an optional sign and a run of digits and underscores
signedValue(chars) ==
    IF chars # <<>> /\ Head(chars) = "-" THEN 0 - digitsValue(Tail(chars), 10, 0)
    ELSE IF chars # <<>> /\ Head(chars) = "+" THEN digitsValue(Tail(chars), 10, 0)
    ELSE digitsValue(chars, 10, 0)

parseDecimalNumber(s, start) ==
    LET sg == call("parseSign", s, start)
        integer == call("parseDigits", s, sg.i)
    IN  IF integer.k # "ok" THEN Fail(start)
        ELSE
        LET hasDot == S(s, integer.i) = "."
            fraction == call("parseDigits", s, integer.i + 1)
            i == IF hasDot THEN fraction.i ELSE integer.i
            \* int(mantissaChars, 10), or float(mantissaChars) with a fraction
            whole == signedValue(Slice(s, start, integer.i))
            fracChars == Slice(s, integer.i + 1, i)
            fracDigits == countDigits(fracChars)
            magnitude == digitsValue(Slice(s, sg.i, integer.i) \o fracChars, 10, 0)
            mantissa ==
                IF hasDot
                THEN normalizeFloat(IF sg.k = "ok" /\ sg.v = -1 THEN 0 - magnitude
                                    ELSE magnitude, fracDigits)
                ELSE [num |-> whole, scale |-> 0]
            hasExp == S(s, i) \in {"e", "E"}
            exponentStart == i + 1
            esign == call("parseSign", s, i + 1)
            edigits == call("parseDigits", s, esign.i)
            exponent == IF hasExp THEN signedValue(Slice(s, exponentStart, edigits.i)) ELSE 0
            end == IF hasExp THEN edigits.i ELSE i
        IN  IF hasDot /\ fraction.k # "ok" THEN Raise("ParseError", fraction.i)
            ELSE IF hasExp /\ edigits.k # "ok" THEN Raise("ParseError", edigits.i)
            ELSE Ok(Decimal(mantissa.num, mantissa.scale, exponent), end)

parseNumber(s, start) ==
    IF ~isNumberStart(s, start) THEN Fail(start)
    ELSE LET bin == call("parseBinaryNumber", s, start) IN
         IF bin.k # "fail" THEN bin
         ELSE LET oct == call("parseOctalNumber", s, start) IN
              IF oct.k # "fail" THEN oct
              ELSE LET hex == call("parseHexNumber", s, start) IN
                   IF hex.k # "fail" THEN hex
                   ELSE LET dec == call("parseDecimalNumber", s, start) IN
                        IF dec.k # "fail" THEN dec
                        ELSE Raise("ParseError", start)

\* parseKeyword reading the keywords in any letter case
parseKeyword_anyCase(s, start) ==
    IF S(s, start) # "#" THEN Fail(start)
    ELSE LET id == call("parseBareIdent", s, start + 1)
             ident == lower(id.v)
         IN  IF id.k # "ok" THEN Fail(start)
             ELSE IF ident = <<"t", "r", "u", "e">> THEN Ok(Bool(TRUE), id.i)
             ELSE IF ident = <<"f", "a", "l", "s", "e">> THEN Ok(Bool(FALSE), id.i)
             ELSE IF ident = <<"n", "u", "l", "l">> THEN Ok(Null, id.i)
             ELSE IF ident = <<"i", "n", "f">> THEN Ok(Infinity(1), id.i)
             ELSE IF ident = <<"-", "i", "n", "f">> THEN Ok(Infinity(-1), id.i)
             ELSE IF ident = <<"n", "a", "n">> THEN Ok(NaN, id.i)
             ELSE Raise("ParseError", start)

parseKeyword(s, start) ==
    IF S(s, start) # "#" THEN Fail(start)
    ELSE LET id == call("parseBareIdent", s, start + 1)
             ident == id.v
         IN  IF id.k # "ok" THEN Fail(start)
             ELSE IF ident = <<"t", "r", "u", "e">> THEN Ok(Bool(TRUE), id.i)
             ELSE IF ident = <<"f", "a", "l", "s", "e">> THEN Ok(Bool(FALSE), id.i)
             ELSE IF ident = <<"n", "u", "l", "l">> THEN Ok(Null, id.i)
             ELSE IF ident = <<"i", "n", "f">> THEN Ok(Infinity(1), id.i)
             ELSE IF ident = <<"-", "i", "n", "f">> THEN Ok(Infinity(-1), id.i)
             ELSE IF ident = <<"n", "a", "n">> THEN Ok(NaN, id.i)
             ELSE Raise("ParseError", start)

(***************************************************************************)
(* Converters.  A registry is a sequence of [key, fn] in insertion order   *)
(* (a dict).  A converter function is modelled by what it returns: fn =    *)
(* "unhandled" returns NotImplemented, fn = "handle" returns an object of  *)
(* the user's that records which converter made it and from what.          *)
(***************************************************************************)
NotImplemented == [ty |-> "NotImplemented"]

NoneNode == [ty |-> "None"]

ANY == <<"...">>

converter(registry, n, arg) ==
    IF registry[n].fn = "unhandled" THEN NotImplemented
    ELSE [ty |-> "Converted", by |-> n, arg |-> arg]

\* Value.matchesKey: a key matches on the tag and on the type of the value
\* (ANY is the wildcard)
valueMatchesKey(val, key) ==
    /\ (key.tag = ANY \/ key.tag = val.tag)
    /\ (key.type = ANY \/ key.type = <<val.ty>>)

\* Node.matchesKey: a key matches on tag and name (ANY is the wildcard)
nodeMatchesKey(node, key) ==
    /\ (key.tag = ANY \/ key.tag = node.tag)
    /\ (key.name = ANY \/ key.name = node.name)

(***************************************************************************)
(* kdl/converters.py: native conversion of tagged values.                  *)
(***************************************************************************)
RECURSIVE pow(_, _)
pow(b, e) == IF e <= 0 THEN 1 ELSE b * pow(b, e - 1)

\* A native scalar: ty is the Python type.
Scalar(ty, num, scale, str) == [ty |-> ty, num |-> num, scale |-> scale, str |-> str]

\* Value.value: the underlying scalar.  Decimal.value is
\* mantissa * (10.0 ** exponent), a float whatever the mantissa.
value(val) ==
    CASE val.ty \in {"Binary", "Octal", "Hex"} -> Scalar("int", val.num, 0, <<>>)
      [] val.ty = "Decimal" ->
            LET shift == val.exp - val.scale IN
            IF shift >= 0
            THEN Scalar("float", val.num * pow(10, shift) * 10, 1, <<>>)
            ELSE LET n == normalizeFloat(val.num, 0 - shift) IN
                 Scalar("float", n.num, n.scale, <<>>)
      [] val.ty = "Bool" -> Scalar("bool", val.num, 0, <<>>)
      [] val.ty = "Null" -> Scalar("NoneType", 0, 0, <<>>)
      [] val.ty \in {"Infinity", "NaN"} -> Scalar("float", val.num, 0, <<val.ty>>)
      [] OTHER -> Scalar("str", 0, 0, val.str)

\* int(x): truncation toward zero
truncate(sc) ==
    LET d == pow(10, sc.scale) IN
    IF sc.num >= 0 THEN sc.num \div d ELSE 0 - ((0 - sc.num) \div d)

\* lo <= val.value < hi
inRange(sc, lo, hi) ==
    LET d == pow(10, sc.scale) IN lo * d <= sc.num /\ sc.num < hi * d

signedInt(val, bits, errIndex) ==
    LET limit == pow(2, bits - 1) IN
    IF ~inRange(value(val), 0 - limit, limit) THEN Raise("ParseError", errIndex)
    ELSE Ok(Scalar("int", truncate(value(val)), 0, <<>>), errIndex)

unsignedInt(val, bits, errIndex) ==
    LET limit == pow(2, bits) IN
    IF ~inRange(value(val), 0, limit) THEN Raise("ParseError", errIndex)
    ELSE Ok(Scalar("int", truncate(value(val)), 0, <<>>), errIndex)

TagI8 == <<"i", "8">>
TagU8 == <<"u", "8">>
TagF32 == <<"f", "3", "2">>

\* the tags toNative looks for on a Stringish, each with the type its
\* conversion (dateTime, time, date, decim, ipv4, ipv6, url, _uuid, regex,
\* b64) builds from a text that the type's constructor accepts
stringConversions ==
    (<<"d", "a", "t", "e", "-", "t", "i", "m", "e">> :> "datetime.datetime")
    @@ (<<"t", "i", "m", "e">> :> "datetime.time")
    @@ (<<"d", "a", "t", "e">> :> "datetime.date")
    @@ (<<"d", "e", "c", "i", "m", "a", "l">> :> "decimal.Decimal")
    @@ (<<"i", "p", "v", "4">> :> "ipaddress.IPv4Address")
    @@ (<<"i", "p", "v", "6">> :> "ipaddress.IPv6Address")
    @@ (<<"u", "r", "l">> :> "urllib.parse.ParseResult")
    @@ (<<"u", "u", "i", "d">> :> "uuid.UUID")
    @@ (<<"r", "e", "g", "e", "x">> :> "re.Pattern")
    @@ (<<"b", "a", "s", "e", "6", "4">> :> "bytes")

\* toNative(val, pf): Ok(result) or the ParseError of pf.error at errIndex.
\* The string conversions are given by the type they produce.
toNative(val, errIndex) ==
    IF val.ty \in {"Binary", "Octal", "Hex", "Decimal"} /\ val.tag = TagI8
    THEN signedInt(val, 8, errIndex)
    ELSE IF val.ty \in {"Binary", "Octal", "Hex", "Decimal"} /\ val.tag = TagU8
    THEN unsignedInt(val, 8, errIndex)
    ELSE IF val.ty \in {"Binary", "Octal", "Hex", "Decimal"} /\ val.tag \in {TagF32, <<"f", "6", "4">>}
    THEN Ok(Scalar("int", truncate(value(val)), 0, <<>>), errIndex)
    ELSE IF val.ty \in {"String", "RawString"} /\ val.tag \in DOMAIN stringConversions
    THEN Ok(Scalar(stringConversions[val.tag], 0, 0, val.str), errIndex)
    ELSE Ok(val, errIndex)

(***************************************************************************)
(* kdl/parsefuncs.py: the hash counters.                                   *)
(***************************************************************************)
parseInitialHashes(s, start) ==
    LET i == start + countRepeated(s, start, "#") IN
    IF S(s, i) = "\"" THEN Ok(i - start, i) ELSE Fail(start)

parseFinalHashes(s, start) ==
    LET i == start + countRepeated(s, start, "#") IN Ok(i - start, i)

(***************************************************************************)
(* kdl/parsefuncs.py: tags, values, entries.                               *)
(***************************************************************************)
parseTag(s, start) ==
    IF S(s, start) # "(" THEN Fail(start)
    ELSE LET sp1 == call("parseNodespace", s, start + 1) IN
         IF sp1.k = "raise" THEN sp1
         ELSE LET val == call("parseString", s, sp1.i) IN
              IF val.k = "raise" THEN val
              ELSE IF val.k # "ok" THEN Fail(start)
              ELSE LET sp2 == call("parseNodespace", s, val.i) IN
                   IF sp2.k = "raise" THEN sp2
                   ELSE IF S(s, sp2.i) # ")" THEN Raise("ParseError", sp2.i)
                   ELSE Ok(val.v.str, sp2.i + 1)

RECURSIVE valueConverterLoop(_, _, _, _)
\* the for loop over s.config.valueConverters.items() in parseValue, at item n:
\* how the loop ends ("break", "else" or "raise"), val, and the calls made
valueConverterLoop(registry, n, val, calls) ==
    IF n > Len(registry) THEN [end |-> "else", val |-> val, calls |-> calls]
    ELSE IF val = NotImplemented
    THEN [end |-> "raise", val |-> "AttributeError", calls |-> calls]
    ELSE IF valueMatchesKey(val, registry[n].key)
    THEN LET new == converter(registry, n, val)
             called == Append(calls, [by |-> n, arg |-> val])
         IN  IF new = NotImplemented
             THEN valueConverterLoop(registry, n + 1, new, called)
             ELSE [end |-> "break", val |-> new, calls |-> called]
    ELSE valueConverterLoop(registry, n + 1, val, calls)

\* a successful result also carries calls, the converter calls made
parseValue(s, start) ==
    LET tg == call("parseTag", s, start) IN
    IF tg.k = "raise" THEN tg ELSE
    LET tag == IF tg.k = "ok" THEN tg.v ELSE None
        sp == call("parseNodespace", s, tg.i)
    IN
    IF sp.k = "raise" THEN sp ELSE
    LET valueStart == sp.i
        number == call("parseNumber", s, valueStart)
        keyword == call("parseKeyword", s, number.i)
        string == call("parseString", s, keyword.i)
        found == IF number.k # "fail" THEN number
                 ELSE IF keyword.k # "fail" THEN keyword
                 ELSE string
    IN
    IF found.k = "raise" THEN found
    ELSE IF found.k = "ok"
    THEN LET val == withTag(found.v, tag)
             i == found.i
             loop == valueConverterLoop(s.config.valueConverters, 1, val, <<>>)
         IN  IF loop.end = "raise" THEN Raise(loop.val, i)
             ELSE IF loop.end = "break"
             THEN [k |-> "ok", v |-> loop.val, i |-> i, calls |-> loop.calls]
             ELSE IF tag = None /\ s.config.nativeUntaggedValues
             THEN IF loop.val = NotImplemented THEN Raise("AttributeError", i)
                  ELSE [k |-> "ok", v |-> value(loop.val), i |-> i, calls |-> loop.calls]
             ELSE IF tag # None /\ s.config.nativeTaggedValues
             THEN IF loop.val = NotImplemented
                  THEN [k |-> "ok", v |-> loop.val, i |-> i, calls |-> loop.calls]
                  ELSE LET native == toNative(loop.val, i) IN
                       IF native.k = "raise" THEN native
                       ELSE [k |-> "ok", v |-> native.v, i |-> i, calls |-> loop.calls]
             ELSE [k |-> "ok", v |-> loop.val, i |-> i, calls |-> loop.calls]
    ELSE IF S(s, found.i) = "'" THEN Raise("ParseError", found.i)
    ELSE IF tag # None THEN Raise("ParseError", found.i)
    ELSE Fail(start)

\* parseProperty with the bug of failing where the key ended
parseProperty_keepsKey(s, start) ==
    LET val == call("parseString", s, start) IN
    IF val.k = "raise" THEN val
    ELSE IF val.k # "ok" THEN Fail(start)
    ELSE LET sp1 == call("parseNodespace", s, val.i) IN
         IF sp1.k = "raise" THEN sp1
         ELSE IF S(s, sp1.i) # "=" THEN Fail(sp1.i)
         ELSE LET v == call("parseValue", s, sp1.i + 1) IN
              IF v.k # "ok" THEN Raise("ParseError", v.i)
              ELSE Ok([key |-> val.v.str, val |-> v.v], v.i)

parseProperty(s, start) ==
    LET val == call("parseString", s, start) IN
    IF val.k = "raise" THEN val
    ELSE IF val.k # "ok" THEN Fail(start)
    ELSE
    LET key == val.v.str
        sp1 == call("parseNodespace", s, val.i)
    IN
    IF sp1.k = "raise" THEN sp1
    ELSE IF S(s, sp1.i) # "=" THEN Fail(start)
    ELSE
    LET sp2 == call("parseNodespace", s, sp1.i + 1) IN
    IF sp2.k = "raise" THEN sp2
    ELSE
    LET v == call("parseValue", s, sp2.i) IN
    IF v.k = "raise" THEN v
    ELSE IF v.k # "ok" THEN Raise("ParseError", v.i)
    ELSE Ok([key |-> key, val |-> v.v], v.i)

parseAttribute(s, start) ==
    LET v == call("parseValue", s, start) IN
    IF v.k = "raise" THEN v
    ELSE IF v.k # "ok" THEN Fail(start)
    ELSE Ok([key |-> None, val |-> v.v], v.i)

parseEntry(s, start) ==
    LET prop == call("parseProperty", s, start) IN
    IF prop.k # "fail" THEN prop
    ELSE LET attr == call("parseAttribute", s, start) IN
         IF attr.k # "fail" THEN attr
         ELSE Fail(start)

\* parseNodeTerminator with the bug of taking anything for a terminator
parseNodeTerminator_anything(s, start) ==
    LET nl == call("parseNewline", s, start) IN
    IF valid(nl) THEN nl
    ELSE IF S(s, start) = ";" THEN Ok(";", start + 1)
    ELSE Ok(TRUE, start)

parseNodeTerminator(s, start) ==
    LET slc == call("parseSingleLineComment", s, start)
        nl == call("parseNewline", s, start)
    IN  IF valid(slc) THEN slc
        ELSE IF valid(nl) THEN nl
        ELSE IF S(s, start) = ";" THEN Ok(";", start + 1)
        ELSE IF eof(s, start) THEN Ok(TRUE, start)
        ELSE Fail(start)

(***************************************************************************)
(* kdl/parsefuncs.py: nodes, child blocks, documents.  A node is           *)
(* [ty |-> "Node", name, tag, entries, nodes]; an entry is [key, val] with *)
(* key = None for an argument.                                             *)
(***************************************************************************)
Node(name, tag, entries, nodes) ==
    [ty |-> "Node", name |-> name, tag |-> tag, entries |-> entries, nodes |-> nodes]

Document(nodes) == [nodes |-> nodes]

\* truthy with the bug of keeping the None of a slashdashed node
truthy_always(node) == TRUE

\* `if node:` in parse and parseNodeChildren
truthy(node) == node # NoneNode

\* replaceExisting with the bug of moving a repeated key to the end
replaceExisting_movesToEnd(entries, entry) ==
    Append(SelectSeq(entries, LAMBDA e : e.key # entry.key), entry)

\* the inner for loop of parseBaseNode: the first entry with entry's key is replaced
RECURSIVE replaceExisting(_, _)
replaceExisting(entries, entry) ==
    IF entries = <<>> THEN <<>>
    ELSE IF Head(entries).key = entry.key THEN <<entry>> \o Tail(entries)
    ELSE <<Head(entries)>> \o replaceExisting(Tail(entries), entry)

RECURSIVE entriesLoop(_, _, _, _, _)
\* the "props and args" loop of parseBaseNode: the entries, and i after them
entriesLoop(s, i, tempI, entries, entryNames) ==
    LET space == call("parseNodespace", s, tempI) IN
    IF space.k = "raise" THEN space
    ELSE IF space.k # "ok" THEN Ok(entries, i)
    ELSE
    LET sd == call("parseSlashDash", s, space.i) IN
    IF sd.k = "raise" THEN sd
    ELSE
    LET entry == call("parseEntry", s, sd.i) IN
    IF entry.k = "raise" THEN entry
    ELSE IF entry.k # "ok" THEN Ok(entries, i)
    ELSE IF sd.k = "ok" THEN entriesLoop(s, entry.i, entry.i, entries, entryNames)
    ELSE IF entry.v.key # None /\ entry.v.key \in entryNames
    THEN entriesLoop(s, entry.i, entry.i, replaceExisting(entries, entry.v), entryNames)
    ELSE entriesLoop(s, entry.i, entry.i, Append(entries, entry.v),
                     IF entry.v.key # None THEN entryNames \cup {entry.v.key}
                     ELSE entryNames)

RECURSIVE nodeConverterLoop(_, _, _, _)
\* the for loop over s.config.nodeConverters.items() in parseBaseNode
nodeConverterLoop(registry, n, node, calls) ==
    IF n > Len(registry) THEN [end |-> "exhausted", val |-> node, calls |-> calls]
    ELSE IF node = NotImplemented
    THEN [end |-> "raise", val |-> "AttributeError", calls |-> calls]
    ELSE IF nodeMatchesKey(node, registry[n].key)
    THEN LET new == converter(registry, n, node)
             called == Append(calls, [by |-> n, arg |-> node])
         IN  IF new = NotImplemented
             THEN nodeConverterLoop(registry, n + 1, new, called)
             ELSE [end |-> "break", val |-> new, calls |-> called]
    ELSE nodeConverterLoop(registry, n + 1, node, calls)

RECURSIVE parseBaseNode(_, _)
RECURSIVE parseNodeChildren(_, _)
RECURSIVE childrenLoop(_, _, _)
RECURSIVE slashdashedChildrenLoop(_, _, _)

\* slashdashedChildrenLoop with the bug of skipping one block at most
slashdashedChildrenLoop_once(s, i, tempI) ==
    LET space == call("parseNodespace", s, tempI) IN
    IF space.k # "ok" THEN Ok(TRUE, i)
    ELSE LET sd == call("parseSlashDash", s, space.i) IN
         IF sd.k # "ok" THEN Ok(TRUE, i)
         ELSE LET children == call("parseNodeChildren", s, sd.i) IN
              IF children.k = "raise" THEN children
              ELSE IF children.k # "ok" THEN Ok(TRUE, i)
              ELSE Ok(TRUE, children.i)

\* the "starting" and the "ending slashdashed children" loops of parseBaseNode
slashdashedChildrenLoop(s, i, tempI) ==
    LET space == call("parseNodespace", s, tempI) IN
    IF space.k = "raise" THEN space
    ELSE IF space.k # "ok" THEN Ok(TRUE, i)
    ELSE
    LET sd == call("parseSlashDash", s, space.i) IN
    IF sd.k = "raise" THEN sd
    ELSE IF sd.k # "ok" THEN Ok(TRUE, i)
    ELSE
    LET children == call("parseNodeChildren", s, sd.i) IN
    IF children.k = "raise" THEN children
    ELSE IF children.k # "ok" THEN Ok(TRUE, i)
    ELSE slashdashedChildrenLoop(s, children.i, children.i)

\* the "real children" loop of parseBaseNode: node.nodes, and i after them
realChildren(s, i) ==
    LET space == call("parseNodespace", s, i) IN
    IF space.k = "raise" THEN space
    ELSE IF space.k # "ok" THEN Ok(<<>>, i)
    ELSE
    LET children == call("parseNodeChildren", s, space.i) IN
    IF children.k = "raise" THEN children
    ELSE IF children.k # "ok" THEN Ok(<<>>, i)
    ELSE Ok(children.v, children.i)

\* a successful result also carries calls, the node converter calls made
parseBaseNode(s, start) ==
    LET sd == call("parseSlashDash", s, start) IN
    IF sd.k = "raise" THEN sd ELSE
    LET nodeSD == sd.k = "ok"
        tg == call("parseTag", s, sd.i)
    IN
    IF tg.k = "raise" THEN tg ELSE
    LET tag == IF tg.k = "ok" THEN tg.v ELSE None
        sp == call("parseNodespace", s, tg.i)
    IN
    IF sp.k = "raise" THEN sp ELSE
    LET val == call("parseString", s, sp.i) IN
    IF val.k = "raise" THEN val
    ELSE IF val.k # "ok" THEN Fail(start)
    ELSE
    LET name == val.v.str
        entries == entriesLoop(s, val.i, val.i, <<>>, {})
    IN
    IF entries.k = "raise" THEN entries ELSE
    LET starting == slashdashedChildrenLoop(s, entries.i, entries.i) IN
    IF starting.k = "raise" THEN starting ELSE
    LET real == realChildren(s, starting.i) IN
    IF real.k = "raise" THEN real ELSE
    LET ending == slashdashedChildrenLoop(s, real.i, real.i) IN
    IF ending.k = "raise" THEN ending ELSE
    LET sp2 == call("parseNodespace", s, ending.i) IN
    IF sp2.k = "raise" THEN sp2 ELSE
    LET i == sp2.i
        loop == nodeConverterLoop(s.config.nodeConverters, 1,
                                  Node(name, tag, entries.v, real.v), <<>>)
    IN
    IF loop.end = "raise" THEN Raise(loop.val, i)
    ELSE IF nodeSD THEN [k |-> "ok", v |-> NoneNode, i |-> i, calls |-> loop.calls]
    ELSE [k |-> "ok", v |-> loop.val, i |-> i, calls |-> loop.calls]

\* the while loop of parseNodeChildren: the nodes, and i where the loop was left
childrenLoop(s, i, nodes) ==
    LET ls == call("parseLinespace", s, i) IN
    IF ls.k = "raise" THEN ls ELSE
    LET node == call("parseBaseNode", s, ls.i) IN
    IF node.k = "raise" THEN node
    ELSE IF node.k # "ok" THEN Ok(nodes, node.i)
    ELSE
    LET kept == IF truthy(node.v) THEN Append(nodes, node.v) ELSE nodes
        term == call("parseNodeTerminator", s, node.i)
    IN  IF term.k # "ok" THEN Ok(kept, term.i)
        ELSE childrenLoop(s, term.i, kept)

parseNodeChildren(s, start) ==
    IF S(s, start) # "{" THEN Fail(start)
    ELSE LET loop == childrenLoop(s, start + 1, <<>>) IN
         IF loop.k = "raise" THEN loop
         ELSE IF eof(s, loop.i) THEN Raise("ParseError", start)
         ELSE IF S(s, loop.i) # "}" THEN Raise("ParseError", loop.i)
         ELSE Ok(loop.v, loop.i + 1)

RECURSIVE parseLoop(_, _, _)
\* the while loop of parse: the nodes, and i where the loop was left
parseLoop(s, i, nodes) ==
    LET ls == call("parseLinespace", s, i) IN
    IF ls.k = "raise" THEN ls ELSE
    LET node == call("parseBaseNode", s, ls.i) IN
    IF node.k = "raise" THEN node
    ELSE IF node.k # "ok" THEN Ok(nodes, node.i)
    ELSE
    LET kept == IF truthy(node.v) THEN Append(nodes, node.v) ELSE nodes
        term == call("parseNodeTerminator", s, node.i)
    IN  IF term.k # "ok" THEN Raise("ParseError", term.i)
        ELSE parseLoop(s, term.i, kept)

\* parse(input, config): Ok(Document, i) with i the index reached (the end of
\* the input), or the exception raised
parse(chars, cfg) ==
    LET s == Stream(chars, cfg)
        i0 == IF Len(chars) # 0 /\ S(s, 0) = "BOM" THEN 1 ELSE 0
        loop == parseLoop(s, i0, <<>>)
    IN  IF loop.k = "raise" THEN loop
        ELSE LET ls == call("parseLinespace", s, loop.i) IN
             IF ls.k = "raise" THEN ls
             ELSE IF ~eof(s, ls.i) THEN Raise("ParseError", ls.i)
             ELSE Ok(Document(loop.v), ls.i)

(***************************************************************************)
(* The productions call one another by name.                               *)
(***************************************************************************)
Productions ==
    { "parseBaseNode", "parseNodeChildren", "parseTag", "parseBareIdent",
      "parseIdentStart", "parseNodeTerminator", "parseEntry", "parseProperty",
      "parseAttribute", "parseValue", "parseNumber", "parseBinaryNumber",
      "parseOctalNumber", "parseHexNumber", "parseDecimalNumber", "parseDigits",
      "parseSign", "parseKeyword", "parseString", "parseEscape",
      "parseIdentString", "parseInitialHashes", "parseFinalHashes",
      "parseNewline", "parseLinespace", "parseNodespace", "parseEscline",
      "parseWhitespace", "parseUnicodeSpace", "parseSlashDash",
      "parseSingleLineComment", "parseBlockComment" }

RECURSIVE iteration(_, _, _, _)

\* prod(s, start): the call of a production by its name; parse is called
\* with the text and the configuration of s, and one iteration of a loop
\* with the loop, its stream and its hash count in s
call(prod, s, start) ==
    CASE prod = "parseBaseNode" -> parseBaseNode(s, start)
      [] prod = "parseNodeChildren" -> parseNodeChildren(s, start)
      [] prod = "parseTag" -> parseTag(s, start)
      [] prod = "parseBareIdent" -> parseBareIdent(s, start)
      [] prod = "parseIdentStart" -> parseIdentStart(s, start)
      [] prod = "parseNodeTerminator" -> parseNodeTerminator(s, start)
      [] prod = "parseEntry" -> parseEntry(s, start)
      [] prod = "parseProperty" -> parseProperty(s, start)
      [] prod = "parseAttribute" -> parseAttribute(s, start)
      [] prod = "parseValue" -> parseValue(s, start)
      [] prod = "parseNumber" -> parseNumber(s, start)
      [] prod = "parseBinaryNumber" -> parseBinaryNumber(s, start)
      [] prod = "parseOctalNumber" -> parseOctalNumber(s, start)
      [] prod = "parseHexNumber" -> parseHexNumber(s, start)
      [] prod = "parseDecimalNumber" -> parseDecimalNumber(s, start)
      [] prod = "parseDigits" -> parseDigits(s, start)
      [] prod = "parseSign" -> parseSign(s, start)
      [] prod = "parseKeyword" -> parseKeyword(s, start)
      [] prod = "parseString" -> parseString(s, start)
      [] prod = "parseEscape" -> parseEscape(s, start)
      [] prod = "parseIdentString" -> parseIdentString(s, start)
      [] prod = "parseInitialHashes" -> parseInitialHashes(s, start)
      [] prod = "parseFinalHashes" -> parseFinalHashes(s, start)
      [] prod = "parseNewline" -> parseNewline(s, start)
      [] prod = "parseLinespace" -> parseLinespace(s, start)
      [] prod = "parseNodespace" -> parseNodespace(s, start)
      [] prod = "parseEscline" -> parseEscline(s, start)
      [] prod = "parseWhitespace" -> parseWhitespace(s, start)
      [] prod = "parseUnicodeSpace" -> parseUnicodeSpace(s, start)
      [] prod = "parseSlashDash" -> parseSlashDash(s, start)
      [] prod = "parseSingleLineComment" -> parseSingleLineComment(s, start)
      [] prod = "parseBlockComment" -> parseBlockComment(s, start)
      [] prod = "parse" -> parse(s.chars, s.config)
      [] prod = "iteration" -> iteration(s.loop, s.stream, start, s.hashCount)

(***************************************************************************)
(* kdl/errors.py: the line and column a ParseError carries.                *)
(***************************************************************************)
RECURSIVE lineColLoop(_, _, _, _, _)
lineColLoop(s, index, i, line, col) ==
    IF i >= index THEN <<line, col>>
    ELSE IF S(s, i) = "\n" THEN lineColLoop(s, index, i + 1, line + 1, 1)
    ELSE lineColLoop(s, index, i + 1, line, col + 1)

lineCol(s, index) == lineColLoop(s, index, 0, 1, 1)

(***************************************************************************)
(* kdl/types.py and kdl/printing.py: the printer.  A PrintConfig is        *)
(* [indent, semicolons, printNullArgs, printNullProps, respectRadix,       *)
(* respectStringType, exponent, sortProperties].                           *)
(***************************************************************************)
PrintConfig(indent, semicolons, printNullArgs, printNullProps, respectRadix, respectStringType, exponent, sortProperties) ==
    [indent |-> indent, semicolons |-> semicolons, printNullArgs |-> printNullArgs,
     printNullProps |-> printNullProps, respectRadix |-> respectRadix,
     respectStringType |-> respectStringType, exponent |-> exponent,
     sortProperties |-> sortProperties]

\* printing.defaults
printingDefaults == PrintConfig(<<"\t">>, FALSE, TRUE, TRUE, TRUE, TRUE, "e", FALSE)

DigitChars == <<"0", "1", "2", "3", "4", "5", "6", "7", "8", "9",
                "a", "b", "c", "d", "e", "f">>

\* the digits of n >= 0 in a radix
RECURSIVE digitsOf(_, _)
digitsOf(n, radix) ==
    IF n < radix THEN <<DigitChars[n + 1]>>
    ELSE Append(digitsOf(n \div radix, radix), DigitChars[(n % radix) + 1])

\* str(int)
str(n) == IF n < 0 THEN <<"-">> \o digitsOf(0 - n, 10) ELSE digitsOf(n, 10)

\* bin(int), oct(int), hex(int) without the sign
prefixed_magnitude(n, letter, radix) ==
    <<"0", letter>> \o digitsOf(IF n < 0 THEN 0 - n ELSE n, radix)

\* bin(int), oct(int), hex(int): the sign, the prefix, the digits
prefixed(n, letter, radix) ==
    IF n < 0 THEN <<"-", "0", letter>> \o digitsOf(0 - n, radix)
    ELSE <<"0", letter>> \o digitsOf(n, radix)

\* the digits of n >= 0, padded with zeros on the left to a width
RECURSIVE padded(_, _)
padded(digits, width) ==
    IF Len(digits) >= width THEN digits ELSE padded(<<"0">> \o digits, width)

\* str(float) of num / 10^scale
strFloat(num, scale) ==
    LET d == pow(10, scale)
        magnitude == IF num < 0 THEN 0 - num ELSE num
    IN  (IF num < 0 THEN <<"-">> ELSE <<>>)
        \o digitsOf(magnitude \div d, 10) \o <<".">>
        \o padded(digitsOf(magnitude % d, 10), scale)

\* str(mantissa) of a Decimal
strMantissa(val) == IF val.scale = 0 THEN str(val.num) ELSE strFloat(val.num, val.scale)

\* isIdentChar of kdl/types.py, the printer's own
types_isIdentChar(ch) ==
    IF ch = "" THEN FALSE
    ELSE IF ch \in {"\\", "/", "(", ")", "{", "}", "<", ">", ";", "[", "]", "=", ",", "\""}
    THEN FALSE
    ELSE LET cp == ord(ch) IN
         IF cp < 32 THEN FALSE
         ELSE IF cp > 1114111 THEN FALSE
         ELSE IF cp \in {9, 32, 160, 5760, 8239, 8287, 12288, 65279} THEN FALSE
         ELSE IF 8192 <= cp /\ cp <= 8202 THEN FALSE
         ELSE IF cp \in {10, 13, 133, 12, 8232, 8233} THEN FALSE
         ELSE TRUE

isBareIdent(chars) ==
    IF chars = <<>> THEN FALSE
    ELSE IF \E n \in 1..Len(chars) : ~types_isIdentChar(chars[n]) THEN FALSE
    ELSE IF isDigit(chars[1]) THEN FALSE
    ELSE IF Len(chars) > 1 /\ chars[1] \in {"+", "-"} /\ isDigit(chars[2]) THEN FALSE
    ELSE IF chars \in { <<"t", "r", "u", "e">>, <<"f", "a", "l", "s", "e">>,
                        <<"n", "u", "l", "l">> } THEN FALSE
    ELSE TRUE

escapedChar(ch) ==
    CASE ch = "\\" -> <<"\\", "\\">>
      [] ch = "\"" -> <<"\\", "\"">>
      [] ch = "BS" -> <<"\\", "b">>
      [] ch = "\f" -> <<"\\", "f">>
      [] ch = "\n" -> <<"\\", "n">>
      [] ch = "\r" -> <<"\\", "r">>
      [] ch = "\t" -> <<"\\", "t">>
      [] OTHER -> <<ch>>

RECURSIVE escapedFromRaw(_)
escapedFromRaw(chars) ==
    IF chars = <<>> THEN <<>>
    ELSE escapedChar(Head(chars)) \o escapedFromRaw(Tail(chars))

printIdent(chars) ==
    IF isBareIdent(chars) THEN chars
    ELSE <<"\"">> \o escapedFromRaw(chars) \o <<"\"">>

printTag(tag) ==
    IF tag # None THEN <<"(">> \o printIdent(tag) \o <<")">> ELSE <<>>

\* `ender in chars`
RECURSIVE contains(_, _)
contains(chars, ender) ==
    IF Len(chars) < Len(ender) THEN FALSE
    ELSE IF SubSeq(chars, 1, Len(ender)) = ender THEN TRUE
    ELSE contains(Tail(chars), ender)

repeat(ch, n) == [k \in 1..n |-> ch]

MaxHashCount == 100

RECURSIVE requiredHashCountFrom(_, _)
requiredHashCountFrom(chars, i) ==
    IF i >= MaxHashCount THEN -1
    ELSE IF ~contains(chars, <<"\"">> \o repeat("#", i)) THEN i
    ELSE requiredHashCountFrom(chars, i + 1)

\* -1 stands for the failed assertion after a hundred tries
findRequiredHashCount(chars) == requiredHashCountFrom(chars, 0)

\* Value.print(config) of each variant
printValue(val, config) ==
    CASE val.ty = "Binary" ->
            printTag(val.tag) \o
            (IF config.respectRadix THEN prefixed(val.num, "b", 2) ELSE str(val.num))
      [] val.ty = "Octal" ->
            printTag(val.tag) \o
            (IF config.respectRadix THEN prefixed(val.num, "o", 8) ELSE str(val.num))
      [] val.ty = "Hex" ->
            printTag(val.tag) \o
            (IF config.respectRadix THEN prefixed(val.num, "x", 16) ELSE str(val.num))
      [] val.ty = "Decimal" ->
            printTag(val.tag) \o strMantissa(val) \o
            (IF val.exp # 0
             THEN <<config.exponent>> \o (IF val.exp > 0 THEN <<"+">> ELSE <<>>)
                  \o str(val.exp)
             ELSE <<>>)
      [] val.ty = "Bool" ->
            printTag(val.tag) \o
            (IF val.num = 1 THEN <<"t", "r", "u", "e">> ELSE <<"f", "a", "l", "s", "e">>)
      [] val.ty = "Null" -> printTag(val.tag) \o <<"n", "u", "l", "l">>
      [] val.ty = "RawString" ->
            IF config.respectStringType
            THEN LET hashes == repeat("#", findRequiredHashCount(val.str)) IN
                 printTag(val.tag) \o <<"r">> \o hashes \o <<"\"">> \o val.str
                 \o <<"\"">> \o hashes
            ELSE printTag(val.tag) \o <<"\"">> \o escapedFromRaw(val.str) \o <<"\"">>
      [] val.ty = "String" ->
            printTag(val.tag) \o <<"\"">> \o escapedFromRaw(val.str) \o <<"\"">>

\* Node.args and Node.props as the parser's entries give them: the arguments
\* are the entries without a key, the properties the entries with one
RECURSIVE selectEntries(_, _)
selectEntries(entries, keyed) ==
    IF entries = <<>> THEN <<>>
    ELSE IF (Head(entries).key # None) = keyed
    THEN <<Head(entries)>> \o selectEntries(Tail(entries), keyed)
    ELSE selectEntries(Tail(entries), keyed)

args(node) == selectEntries(node.entries, FALSE)

props(node) == selectEntries(node.entries, TRUE)

\* the order of str: by codepoint, a prefix first
RECURSIVE strLess(_, _)
strLess(a, b) ==
    IF b = <<>> THEN FALSE
    ELSE IF a = <<>> THEN TRUE
    ELSE IF Head(a) # Head(b) THEN ord(Head(a)) < ord(Head(b))
    ELSE strLess(Tail(a), Tail(b))

RECURSIVE insertSorted(_, _)
insertSorted(sortedProps, p) ==
    IF sortedProps = <<>> THEN <<p>>
    ELSE IF strLess(p.key, Head(sortedProps).key) THEN <<p>> \o sortedProps
    ELSE <<Head(sortedProps)>> \o insertSorted(Tail(sortedProps), p)

\* sorted leaving the properties as they were inserted
sorted_asInserted(ps) == ps

\* sorted(self.props.items(), key=lambda x: x[0])
RECURSIVE sorted(_)
sorted(ps) ==
    IF ps = <<>> THEN <<>>
    ELSE insertSorted(sorted(SubSeq(ps, 1, Len(ps) - 1)), ps[Len(ps)])

RECURSIVE printArgs(_, _)
printArgs(as, config) ==
    IF as = <<>> THEN <<>>
    ELSE (IF ~config.printNullArgs /\ Head(as).val.ty = "Null" THEN <<>>
          ELSE <<" ">> \o printValue(Head(as).val, config))
         \o printArgs(Tail(as), config)

RECURSIVE printProps(_, _)
printProps(ps, config) ==
    IF ps = <<>> THEN <<>>
    ELSE (IF ~config.printNullProps /\ Head(ps).val.ty = "Null" THEN <<>>
          ELSE <<" ">> \o printIdent(Head(ps).key) \o <<"=">>
               \o printValue(Head(ps).val, config))
         \o printProps(Tail(ps), config)

RECURSIVE repeatText(_, _)
repeatText(chars, n) == IF n <= 0 THEN <<>> ELSE chars \o repeatText(chars, n - 1)

RECURSIVE printNode(_, _, _)
RECURSIVE printNodes(_, _, _)
\* the concatenation of child.print(config, indentLevel) over a node list
printNodes(nodes, config, indentLevel) ==
    IF nodes = <<>> THEN <<>>
    ELSE printNode(Head(nodes), config, indentLevel)
         \o printNodes(Tail(nodes), config, indentLevel)

\* Node.print(config, indentLevel)
printNode(node, config, indentLevel) ==
    LET childrenText == printNodes(node.nodes, config, indentLevel + 1) IN
    repeatText(config.indent, indentLevel)
    \o (IF node.tag # None THEN <<"(">> \o printIdent(node.tag) \o <<")">> ELSE <<>>)
    \o printIdent(node.name)
    \o printArgs(args(node), config)
    \o printProps(IF config.sortProperties THEN sorted(props(node)) ELSE props(node),
                  config)
    \o (IF node.nodes # <<>> /\ childrenText # <<>>
        THEN <<" ", "{", "\n">> \o childrenText
             \o repeatText(config.indent, indentLevel) \o <<"}">>
        ELSE <<>>)
    \o (IF config.semicolons THEN <<";", "\n">> ELSE <<"\n">>)

\* Document.print(config)
printDocument(doc, config) ==
    LET s == printNodes(doc.nodes, config, 0) IN
    IF s = <<>> THEN <<"\n">> ELSE s

(***************************************************************************)
(* The state machine.  A run takes a text, parses it, prints the document  *)
(* and parses the printed text again.                                      *)
(***************************************************************************)
NoGen == [shape |-> "text"]

NoResult == [k |-> "none"]

NoProbe == [prod |-> "none"]

\* ParseConfig(nativeUntaggedValues, nativeTaggedValues, valueConverters, nodeConverters)
ParseConfig(nativeUntaggedValues, nativeTaggedValues, valueConverters, nodeConverters) ==
    [nativeUntaggedValues |-> nativeUntaggedValues,
     nativeTaggedValues |-> nativeTaggedValues,
     valueConverters |-> valueConverters,
     nodeConverters |-> nodeConverters]

\* native conversions disabled, no converters
PlainConfig == ParseConfig(FALSE, FALSE, <<>>, <<>>)

\* the texts made of at most n tokens
RECURSIVE TextsOf(_, _)
TextsOf(tokens, n) ==
    IF n = 0 THEN {<<>>}
    ELSE LET shorter == TextsOf(tokens, n - 1) IN
         shorter \cup {txt \o tok : txt \in shorter, tok \in tokens}

MaxTokens == 4

Tokens ==
    { <<"a">>, <<" ">>, <<";">>, <<"\n">>, <<"1">>, <<"=">>,
      <<"#", "t", "r", "u", "e">>, <<"/", "-">>, <<"{">>, <<"}">>,
      <<"\"">>, <<"\"", "\"", "\"">> }

PrintConfigs ==
    { printingDefaults,
      PrintConfig(<<" ">>, TRUE, FALSE, FALSE, FALSE, FALSE, "E", TRUE) }

Init ==
    /\ input \in TextsOf(Tokens, MaxTokens)
    /\ gen = NoGen
    /\ parseConfig = PlainConfig
    /\ printConfig = printingDefaults
    /\ pc = "start"
    /\ out = NoResult
    /\ text = <<>>
    /\ out2 = NoResult
    /\ probe = NoProbe

\* parse(input, parseConfig)
Parse ==
    /\ pc = "start"
    /\ out' = call("parse", Stream(input, parseConfig), 0)
    /\ pc' = "parsed"
    /\ UNCHANGED <<input, gen, parseConfig, printConfig, text, out2, probe>>

\* doc.print(cfg) of the document parse returned
PrintDoc ==
    /\ pc = "parsed"
    /\ out.k = "ok"
    /\ \E cfg \in PrintConfigs :
          /\ printConfig' = cfg
          /\ text' = printDocument(out.v, cfg)
    /\ pc' = "printed"
    /\ UNCHANGED <<input, gen, parseConfig, out, out2, probe>>

\* parse(text, parseConfig) of the printed text
Reparse ==
    /\ pc = "printed"
    /\ out2' = call("parse", Stream(text, parseConfig), 0)
    /\ pc' = "reparsed"
    /\ UNCHANGED <<input, gen, parseConfig, printConfig, out, text, probe>>

Next == Parse \/ PrintDoc \/ Reparse

Spec == Init /\ [][Next]_vars

\* C4: parse returns a Document or raises ParseError; no other exception
\* leaves parse, whatever the text, a run of quotes in the body of a
\* multiline string included.
C4_OnlyParseError ==
    pc = "parsed" =>
        \/ out.k = "ok" /\ out.i = Len(input)
        \/ out.k = "raise" /\ out.v = "ParseError"

(***************************************************************************)
(* Generated texts.  A text is rendered from an abstract shape, gen, that  *)
(* says what the text means; the outcome of parse is compared with gen.    *)
(***************************************************************************)
\* the sequences over a set of at most n elements
RECURSIVE SeqsUpTo(_, _)
SeqsUpTo(set, n) ==
    IF n = 0 THEN {<<>>}
    ELSE LET shorter == SeqsUpTo(set, n - 1) IN
         shorter \cup {Append(q, x) : q \in shorter, x \in set}

\* the text of each q[n] under render, concatenated
RECURSIVE concatMap(_, _)
concatMap(render(_), q) ==
    IF q = <<>> THEN <<>> ELSE render(Head(q)) \o concatMap(render, Tail(q))

StartState(chars, shape, cfg) ==
    /\ input = chars
    /\ gen = shape
    /\ parseConfig = cfg
    /\ printConfig = printingDefaults
    /\ pc = "start"
    /\ out = NoResult
    /\ text = <<>>
    /\ out2 = NoResult
    /\ probe = NoProbe

(***************************************************************************)
(* Entries: one node, n, with a sequence of entries, each slashdashed or   *)
(* not, an argument (key = None) or a property, of a small integer.        *)
(***************************************************************************)
MaxEntries == 3

EntryKeys == {None, <<"a">>, <<"b">>}

GenEntries == [sd : BOOLEAN, key : EntryKeys, val : 1..2]

renderEntry(e) ==
    <<" ">> \o (IF e.sd THEN <<"/", "-">> ELSE <<>>)
    \o (IF e.key # None THEN e.key \o <<"=">> ELSE <<>>)
    \o str(e.val)

renderEntries(entries) == <<"n">> \o concatMap(renderEntry, entries)

InitEntries ==
    \E entries \in SeqsUpTo(GenEntries, MaxEntries) :
        StartState(renderEntries(entries),
                   [shape |-> "entries", entries |-> entries], PlainConfig)

SpecEntries == InitEntries /\ [][Parse]_vars

\* the entries of gen that are not slashdashed, in source order
liveEntries == SelectSeq(gen.entries, LAMBDA e : ~e.sd)

\* the positions of live that an entry of the node stands for: every
\* argument, and the first assignment of every key
firstPositions(live) ==
    {n \in 1..Len(live) :
        live[n].key = None \/ \A m \in 1..(n - 1) : live[m].key # live[n].key}

\* the value last assigned to the key of live[n]
lastAssigned(live, n) ==
    LET last == CHOOSE m \in n..Len(live) :
                    /\ live[m].key = live[n].key
                    /\ \A j \in (m + 1)..Len(live) : live[j].key # live[n].key
    IN  live[last].val

\* the entries the claim expects for live, from position n on
RECURSIVE expectedEntries(_, _)
expectedEntries(live, n) ==
    IF n > Len(live) THEN <<>>
    ELSE IF n \notin firstPositions(live) THEN expectedEntries(live, n + 1)
    ELSE <<[key |-> live[n].key,
            val |-> Decimal(IF live[n].key = None THEN live[n].val
                            ELSE lastAssigned(live, n), 0, 0)]>>
         \o expectedEntries(live, n + 1)

\* C2: after parseBaseNode has processed the entries, every property key
\* occurs once, with the value of its last assignment that is not
\* slashdashed, at the position of its first such assignment; the arguments
\* keep their source order; slashdashed entries do not appear and change
\* nothing.
C2_LastWriteFirstPosition ==
    (pc = "parsed" /\ gen.shape = "entries") =>
        /\ out.k = "ok"
        /\ Len(out.v.nodes) = 1
        /\ out.v.nodes[1].entries = expectedEntries(liveEntries, 1)
        /\ \A a, b \in 1..Len(out.v.nodes[1].entries) :
              (a # b /\ out.v.nodes[1].entries[a].key # None)
                  => out.v.nodes[1].entries[a].key # out.v.nodes[1].entries[b].key

\* a key assigned twice with different values, with an argument between the
\* two assignments and a slashdashed assignment of the key as well
C2_Witness ==
    /\ pc = "parsed"
    /\ gen.shape = "entries"
    /\ out.k = "ok"
    /\ \E a, b, c \in 1..Len(gen.entries) :
          /\ a < b /\ b < c
          /\ ~gen.entries[a].sd /\ ~gen.entries[c].sd /\ ~gen.entries[b].sd
          /\ gen.entries[a].key = <<"b">> /\ gen.entries[c].key = <<"b">>
          /\ gen.entries[b].key = None
          /\ gen.entries[a].val # gen.entries[c].val
          /\ out.v.nodes[1].entries[1] = [key |-> <<"b">>,
                                          val |-> Decimal(gen.entries[c].val, 0, 0)]

(***************************************************************************)
(* Round trip: one node with entries of every kind of value, an optional   *)
(* child; parsed, printed under a PrintConfig, and parsed again.           *)
(***************************************************************************)
MaxRoundEntries == 2

RoundValues ==
    { <<"1">>, <<"0", "x", "1", "f">>, <<"1", ".", "2", "e", "3">>, <<"\"", "s", "\"">>,
      <<"#", "\"", "s", "\"", "#">>, <<"(", "t", ")", "2">>,
      <<"#", "t", "r", "u", "e">>, <<"#", "f", "a", "l", "s", "e">>,
      <<"#", "n", "u", "l", "l">> }

GenRoundEntries == [key : {None, <<"a">>}, txt : RoundValues]

renderRoundEntry(e) ==
    <<" ">> \o (IF e.key # None THEN e.key \o <<"=">> ELSE <<>>) \o e.txt

renderRound(entries, child) ==
    <<"n">> \o concatMap(renderRoundEntry, entries)
    \o (IF child THEN <<" ", "{", "c", "}">> ELSE <<>>)

InitRound ==
    \E entries \in SeqsUpTo(GenRoundEntries, MaxRoundEntries), child \in BOOLEAN :
        StartState(renderRound(entries, child),
                   [shape |-> "round", entries |-> entries, child |-> child],
                   PlainConfig)

SpecRound == InitRound /\ [][Next]_vars

\* two values are the same value; under respectRadix = FALSE a number is
\* printed in decimal, so its radix is not compared
sameValue(config, a, b) ==
    IF isNumberish(a) /\ isNumberish(b) /\ ~config.respectRadix
    THEN [a EXCEPT !.ty = "Decimal"] = [b EXCEPT !.ty = "Decimal"]
    ELSE IF isStringish(a) /\ isStringish(b) /\ ~config.respectStringType
    THEN [a EXCEPT !.ty = "String"] = [b EXCEPT !.ty = "String"]
    ELSE a = b

sameArgs(config, as, bs) ==
    /\ Len(as) = Len(bs)
    /\ \A n \in 1..Len(as) : sameValue(config, as[n].val, bs[n].val)

\* the same keys with the same values, in any order
sameProps(config, ps, qs) ==
    /\ \A n \in 1..Len(ps) : \E m \in 1..Len(qs) :
          ps[n].key = qs[m].key /\ sameValue(config, ps[n].val, qs[m].val)
    /\ \A m \in 1..Len(qs) : \E n \in 1..Len(ps) : ps[n].key = qs[m].key

\* node names, tags, argument sequences, properties and children agree
RECURSIVE sameNodes(_, _, _)
sameNodes(config, ns, ms) ==
    /\ Len(ns) = Len(ms)
    /\ \A n \in 1..Len(ns) :
          /\ ns[n].name = ms[n].name
          /\ ns[n].tag = ms[n].tag
          /\ sameArgs(config, args(ns[n]), args(ms[n]))
          /\ sameProps(config, props(ns[n]), props(ms[n]))
          /\ sameNodes(config, ns[n].nodes, ms[n].nodes)

\* C1: the text Document.print gives, under any PrintConfig, for a document
\* that parse returned parses again, to a document with the same node names,
\* tags, argument sequences, properties and children; #true, #false and
\* #null come back as themselves.
C1_RoundTrip ==
    pc = "reparsed" =>
        /\ out2.k = "ok"
        /\ sameNodes(printConfig, out.v.nodes, out2.v.nodes)

(***************************************************************************)
(* Probes: one production called on a text at a start index.               *)
(***************************************************************************)
MaxProbeTokens == 3

ProbeTokens ==
    { <<"a">>, <<" ">>, <<"/", "-">>, <<"(", "a", ")">>, <<"(">>, <<"=">>,
      <<"1">>, <<"-">>, <<"#">>, <<"\\">>, <<"\"">>, <<"{">> }

InitProbe ==
    \E chars \in TextsOf(ProbeTokens, MaxProbeTokens) :
        StartState(chars, [shape |-> "probe"], PlainConfig)

\* every production, called at one start index of the text
ProbeProductions ==
    /\ pc = "start"
    /\ \E start \in 0..Len(input) :
          probe' = [prod |-> "all", start |-> start,
                    res |-> [prod \in Productions |->
                                call(prod, Stream(input, parseConfig), start)]]
    /\ pc' = "probed"
    /\ UNCHANGED <<input, gen, parseConfig, printConfig, out, text, out2>>

SpecProbe == InitProbe /\ [][ProbeProductions]_vars

\* C3: a production that fails softly returns the start index it was called
\* with, also when it had advanced past a slashdash, a tag, an opening
\* parenthesis or a property key before it failed.
C3_SoftFailureConsumesNothing ==
    probe.prod = "all" =>
        \A prod \in Productions :
            probe.res[prod].k = "fail" =>
                /\ probe.res[prod].i = probe.start
                /\ probe.res[prod].v = None

\* parseBaseNode, called after the first character on a slashdash and a tag
\* with no name after them, fails where it was called
C3_Witness ==
    /\ probe.prod = "all"
    /\ probe.start = 1
    /\ Slice(Stream(input, parseConfig), 1, 6) = <<"/", "-", "(", "a", ")">>
    /\ probe.res["parseSlashDash"].k = "ok"
    /\ probe.res["parseBaseNode"].k = "fail"
    /\ probe.res["parseBaseNode"].i = 1

(***************************************************************************)
(* Raw strings: parseQuotedString called with hashCount > 0 on the text    *)
(* after the opening quote.                                                *)
(***************************************************************************)
MaxRawTokens == 4

MaxHashes == 2

RawTokens == { <<"\"">>, <<"\"", "#">>, <<"#">>, <<"a">>, <<"\\">>, <<"\n">> }

InitRaw ==
    \E chars \in TextsOf(RawTokens, MaxRawTokens) :
        StartState(chars, [shape |-> "raw"], PlainConfig)

ProbeQuotedString ==
    /\ pc = "start"
    /\ \E start \in 0..Len(input), hashCount \in 1..MaxHashes :
          probe' = [prod |-> "parseQuotedString", start |-> start,
                    hashCount |-> hashCount,
                    res |-> parseQuotedString(Stream(input, parseConfig), start,
                                              hashCount)]
    /\ pc' = "probed"
    /\ UNCHANGED <<input, gen, parseConfig, printConfig, out, text, out2>>

SpecRaw == InitRaw /\ [][ProbeQuotedString]_vars

\* the character of input at the 0-based index i, "" past the end
charAt(i) == IF i >= Len(input) THEN "" ELSE input[i + 1]

\* the number of '#' characters from index i on
hashesAt(i) ==
    CHOOSE h \in 0..Len(input) :
        /\ \A j \in 0..(h - 1) : charAt(i + j) = "#"
        /\ charAt(i + h) # "#"

\* the scan for the end of a raw string of n hashes stops at index i: at the
\* end of the text, at a newline, or at a quote followed by n hashes or more
rawStops(i, n) ==
    \/ i >= Len(input)
    \/ charAt(i) = "\n"
    \/ charAt(i) = "\"" /\ hashesAt(i + 1) >= n

\* the first index from start on where the scan stops
rawEnd(start, n) ==
    CHOOSE i \in start..Len(input) :
        rawStops(i, n) /\ \A j \in start..(i - 1) : ~rawStops(j, n)

\* C10: parseQuotedString with n > 0 hashes ends the string at the first
\* quote followed by exactly n hashes and returns the text before it as it
\* stands, backslashes and quotes with fewer hashes included; a quote
\* followed by more than n hashes, the end of the text or a newline before
\* that raise ParseError.
C10_RawStringEnd ==
    probe.prod = "parseQuotedString" =>
        LET end == rawEnd(probe.start, probe.hashCount) IN
        IF charAt(end) = "\"" /\ hashesAt(end + 1) = probe.hashCount
        THEN /\ probe.res.k = "ok"
             /\ probe.res.v = String(SubSeq(input, probe.start + 1, end))
             /\ probe.res.i = end + 1 + probe.hashCount
        ELSE /\ probe.res.k = "raise"
             /\ probe.res.v = "ParseError"

\* a raw string of two hashes whose text holds a quote followed by one hash
\* and a backslash
C10_Witness ==
    /\ probe.prod = "parseQuotedString"
    /\ probe.hashCount = 2
    /\ probe.start = 0
    /\ input = <<"\"", "#", "\\", "\"", "#", "#">>
    /\ probe.res.k = "ok"
    /\ probe.res.v = String(<<"\"", "#", "\\">>)

(***************************************************************************)
(* Node lists: top-level nodes, each slashdashed or not, with an argument  *)
(* and an optional child block of nodes, each slashdashed or not, and      *)
(* terminated by ';' or a newline.  The node at position n is named        *)
(* Names[n], its children Names[n] followed by 1, 2, 3; a slashdashed      *)
(* child has an argument and a child of its own.                           *)
(***************************************************************************)
MaxNodes == 3

Names == <<"a", "b", "c", "e", "f", "i", "l", "n", "o", "r">>

\* the child blocks: none, or the slashdash flags of the children
KidLists == { <<"none">>, <<TRUE, FALSE>>, <<FALSE, TRUE, FALSE>> }

GenNodes == [sd : BOOLEAN, kids : KidLists, sep : {";", "\n"}]

kidName(n, j) == <<Names[n], str(j)[1]>>

RECURSIVE renderKids(_, _, _)
renderKids(kids, n, j) ==
    IF j > Len(kids) THEN <<>>
    ELSE (IF kids[j] THEN <<"/", "-">> \o kidName(n, j) \o <<" ", "2", " ", "{", "x", "}">>
          ELSE kidName(n, j))
         \o (IF j % 2 = 1 THEN <<";">> ELSE <<"\n">>)
         \o renderKids(kids, n, j + 1)

RECURSIVE renderNodes(_, _)
renderNodes(nodes, n) ==
    IF n > Len(nodes) THEN <<>>
    ELSE (IF nodes[n].sd THEN <<"/", "-">> ELSE <<>>) \o <<Names[n]>>
         \o <<" ", "1">>
         \o (IF nodes[n].kids = <<"none">> THEN <<>>
             ELSE <<" ", "{">> \o renderKids(nodes[n].kids, n, 1) \o <<"}">>)
         \o <<nodes[n].sep>>
         \o renderNodes(nodes, n + 1)

InitNodes ==
    \E nodes \in SeqsUpTo(GenNodes, MaxNodes) :
        StartState(renderNodes(nodes, 1), [shape |-> "nodes", nodes |-> nodes],
                   PlainConfig)

SpecNodes == InitNodes /\ [][Parse]_vars

RECURSIVE expectedKids(_, _, _)
expectedKids(kids, n, j) ==
    IF kids = <<"none">> \/ j > Len(kids) THEN <<>>
    ELSE (IF kids[j] THEN <<>>
          ELSE <<Node(kidName(n, j), None, <<>>, <<>>)>>)
         \o expectedKids(kids, n, j + 1)

\* the nodes of gen that are not slashdashed, with their children that are
\* not slashdashed, in source order
RECURSIVE expectedNodes(_, _)
expectedNodes(nodes, n) ==
    IF n > Len(nodes) THEN <<>>
    ELSE (IF nodes[n].sd THEN <<>>
          ELSE <<Node(<<Names[n]>>, None, <<[key |-> None, val |-> Decimal(1, 0, 0)]>>,
                      expectedKids(nodes[n].kids, n, 1))>>)
         \o expectedNodes(nodes, n + 1)

\* C5: the nodes of the Document, and the children of every node, are the
\* nodes of the text that are not slashdashed, in source order; a slashdashed
\* node leaves nothing, neither itself nor its entries nor its children, and
\* the nodes before and after it are kept.
C5_SlashdashedNodesDropped ==
    (pc = "parsed" /\ gen.shape = "nodes") =>
        /\ out.k = "ok"
        /\ out.v = Document(expectedNodes(gen.nodes, 1))

\* a slashdashed node with children between two kept nodes, on one line, the
\* first of them with a slashdashed child between two kept children
C5_Witness ==
    /\ pc = "parsed"
    /\ gen.shape = "nodes"
    /\ Len(gen.nodes) = 3
    /\ ~gen.nodes[1].sd /\ gen.nodes[2].sd /\ ~gen.nodes[3].sd
    /\ gen.nodes[1].sep = ";" /\ gen.nodes[2].sep = ";"
    /\ gen.nodes[1].kids = <<FALSE, TRUE, FALSE>>
    /\ gen.nodes[2].kids = <<TRUE, FALSE>>
    /\ out.k = "ok"
    /\ Len(out.v.nodes) = 2
    /\ out.v.nodes[2].name = <<"c">>
    /\ Len(out.v.nodes[1].nodes) = 2

(***************************************************************************)
(* Terminators: top-level nodes, each slashdashed or not, with an empty    *)
(* child block or none, followed by a separator: a terminator, space only, *)
(* or something that is neither.                                           *)
(***************************************************************************)
MaxTermNodes == 2

Separators ==
    { [chars |-> <<";">>, kind |-> "terminator"],
      [chars |-> <<"\n">>, kind |-> "terminator"],
      [chars |-> <<" ", "/", "/", "x", "\n">>, kind |-> "terminator"],
      [chars |-> <<>>, kind |-> "space"],
      [chars |-> <<" ">>, kind |-> "space"],
      [chars |-> <<"}">>, kind |-> "junk"],
      [chars |-> <<";", " ", "=">>, kind |-> "junk"] }

GenTermNodes == [sd : BOOLEAN, block : BOOLEAN, sep : Separators]

\* a node without a child block is followed by space only at the end of the
\* text: elsewhere the next node would read as its argument
TermLists ==
    {q \in SeqsUpTo(GenTermNodes, MaxTermNodes) :
        \A n \in 1..(Len(q) - 1) : q[n].sep.kind = "space" => q[n].block}

RECURSIVE renderTermNodes(_, _)
renderTermNodes(nodes, n) ==
    IF n > Len(nodes) THEN <<>>
    ELSE (IF nodes[n].sd THEN <<"/", "-">> ELSE <<>>) \o <<Names[n]>>
         \o (IF nodes[n].block THEN <<" ", "{", "}">> ELSE <<>>)
         \o nodes[n].sep.chars
         \o renderTermNodes(nodes, n + 1)

InitTerm ==
    \E nodes \in TermLists :
        StartState(renderTermNodes(nodes, 1), [shape |-> "term", nodes |-> nodes],
                   PlainConfig)

SpecTerm == InitTerm /\ [][Parse]_vars

\* every node but the last is followed by a terminator, the last by a
\* terminator or by space and the end of the text
terminated(nodes) ==
    \A n \in 1..Len(nodes) :
        \/ nodes[n].sep.kind = "terminator"
        \/ nodes[n].sep.kind = "space" /\ n = Len(nodes)

\* C6: parse returns a Document only when it has consumed the whole text:
\* every top-level node, slashdashed or not, is followed by a terminator (a
\* newline, a single-line comment, ';' or the end of the text), and nothing
\* but linespace is left after the last node; otherwise it raises ParseError.
C6_WholeInputConsumed ==
    (pc = "parsed" /\ gen.shape = "term") =>
        /\ out.k = "ok" <=> terminated(gen.nodes)
        /\ out.k = "ok" => out.i = Len(input)
        /\ out.k # "ok" => (out.k = "raise" /\ out.v = "ParseError")

\* a node with a child block followed by space and a second node: ParseError;
\* a slashdashed node followed by '}': ParseError
C6_Witness ==
    /\ pc = "parsed"
    /\ gen.shape = "term"
    /\ Len(gen.nodes) = 2
    /\ gen.nodes[1].block /\ gen.nodes[1].sep.chars = <<" ">>
    /\ gen.nodes[2].sep.kind = "terminator"
    /\ out.k = "raise"
    /\ out.v = "ParseError"

(***************************************************************************)
(* Child blocks: a node followed by child blocks, each slashdashed or not, *)
(* with zero, one or two nodes; alone or as the child of another node.     *)
(***************************************************************************)
MaxBlocks == 3

GenBlocks == [sd : BOOLEAN, size : {0, 1, 2}]

blockKids(n, size) == [j \in 1..size |-> kidName(n, j)]

RECURSIVE renderBlocks(_, _)
renderBlocks(blocks, n) ==
    IF n > Len(blocks) THEN <<>>
    ELSE <<" ">> \o (IF blocks[n].sd THEN <<"/", "-">> ELSE <<>>) \o <<"{">>
         \o concatMap(LAMBDA name : name \o <<";">>, blockKids(n, blocks[n].size))
         \o <<"}">>
         \o renderBlocks(blocks, n + 1)

renderBlockNode(blocks, wrapped) ==
    IF wrapped THEN <<"o", " ", "{">> \o <<"n">> \o renderBlocks(blocks, 1) \o <<"}">>
    ELSE <<"n">> \o renderBlocks(blocks, 1)

InitBlocks ==
    \E blocks \in SeqsUpTo(GenBlocks, MaxBlocks), wrapped \in BOOLEAN :
        StartState(renderBlockNode(blocks, wrapped),
                   [shape |-> "blocks", blocks |-> blocks, wrapped |-> wrapped],
                   PlainConfig)

SpecBlocks == InitBlocks /\ [][Parse]_vars

\* the positions of the blocks that are not slashdashed
realBlocks == {n \in 1..Len(gen.blocks) : ~gen.blocks[n].sd}

\* the contents of the block at position n
blockNodes(n) ==
    [j \in 1..gen.blocks[n].size |-> Node(kidName(n, j), None, <<>>, <<>>)]

\* the node n that parse returned
parsedBlockNode == IF gen.wrapped THEN out.v.nodes[1].nodes[1] ELSE out.v.nodes[1]

\* C7: node.nodes is the contents of the one child block that is not
\* slashdashed, empty when there is none, whatever slashdashed blocks come
\* before or after it; a second child block that is not slashdashed makes
\* parse raise ParseError.
C7_OneRealChildBlock ==
    (pc = "parsed" /\ gen.shape = "blocks") =>
        IF Cardinality(realBlocks) > 1
        THEN out.k = "raise" /\ out.v = "ParseError"
        ELSE /\ out.k = "ok"
             /\ parsedBlockNode.name = <<"n">>
             /\ \A n \in realBlocks : parsedBlockNode.nodes = blockNodes(n)
             /\ realBlocks = {} => parsedBlockNode.nodes = <<>>

\* a block of two nodes between two slashdashed blocks that are not empty
C7_Witness ==
    /\ pc = "parsed"
    /\ gen.shape = "blocks"
    /\ Len(gen.blocks) = 3
    /\ gen.blocks[1].sd /\ ~gen.blocks[2].sd /\ gen.blocks[3].sd
    /\ gen.blocks[1].size = 1 /\ gen.blocks[2].size = 2 /\ gen.blocks[3].size = 2
    /\ out.k = "ok"
    /\ Len(out.v.nodes[1].nodes) = 2

(***************************************************************************)
(* Converters: a node with one argument, parsed under a ParseConfig with a *)
(* registry of value converters or of node converters.  A registry is a    *)
(* dict: its keys are distinct.                                            *)
(***************************************************************************)
MaxConverters == 2

ValueKeys ==
    { [tag |-> ANY, type |-> ANY], [tag |-> TagU8, type |-> ANY],
      [tag |-> ANY, type |-> <<"Decimal">>] }

NodeKeys ==
    { [tag |-> ANY, name |-> ANY], [tag |-> TagU8, name |-> ANY],
      [tag |-> ANY, name |-> <<"n">>] }

Registries(keys) ==
    {q \in SeqsUpTo([key : keys, fn : {"unhandled", "handle"}], MaxConverters) :
        \A a, b \in 1..Len(q) : a # b => q[a].key # q[b].key}

\* the texts: a node n, tagged u8 or not, with one argument, tagged u8 or not
ConverterTexts ==
    { [tag |-> tag, chars |-> (IF tag = None THEN <<>> ELSE <<"(">> \o tag \o <<")">>)
                              \o <<"n", " ">>
                              \o (IF tag = None THEN <<>> ELSE <<"(">> \o tag \o <<")">>)
                              \o <<"1">>] :
        tag \in {None, TagU8} }

InitConverters ==
    \E txt \in ConverterTexts, untagged \in BOOLEAN, tagged \in BOOLEAN :
        \/ \E registry \in Registries(ValueKeys) :
              StartState(txt.chars,
                         [shape |-> "value", tag |-> txt.tag, registry |-> registry],
                         ParseConfig(untagged, tagged, registry, <<>>))
        \/ \E registry \in Registries(NodeKeys) :
              StartState(txt.chars,
                         [shape |-> "node", tag |-> txt.tag, registry |-> registry],
                         ParseConfig(untagged, tagged, <<>>, registry))

\* the index of the argument in the text
valueStart == IF gen.tag = None THEN 2 ELSE 6

\* parseValue on the argument, under the value converters
ProbeValue ==
    /\ pc = "start"
    /\ gen.shape = "value"
    /\ probe' = [prod |-> "parseValue", start |-> valueStart,
                 res |-> call("parseValue", Stream(input, parseConfig), valueStart)]
    /\ pc' = "probed"
    /\ UNCHANGED <<input, gen, parseConfig, printConfig, out, text, out2>>

\* parseBaseNode on the node, under the node converters
ProbeNode ==
    /\ pc = "start"
    /\ gen.shape = "node"
    /\ probe' = [prod |-> "parseBaseNode", start |-> 0,
                 res |-> call("parseBaseNode", Stream(input, parseConfig), 0)]
    /\ pc' = "probed"
    /\ UNCHANGED <<input, gen, parseConfig, printConfig, out, text, out2>>

NextConverters == ProbeValue \/ ProbeNode

SpecConverters == InitConverters /\ [][NextConverters]_vars

\* the value and the node as parsed, before any converter
parsedValue == withTag(Decimal(1, 0, 0), gen.tag)

parsedNode ==
    Node(<<"n">>, gen.tag,
         <<[key |-> None,
            val |-> IF gen.tag = None /\ parseConfig.nativeUntaggedValues
                    THEN value(parsedValue)
                    ELSE IF gen.tag # None /\ parseConfig.nativeTaggedValues
                    THEN Scalar("int", 1, 0, <<>>)
                    ELSE parsedValue]>>,
         <<>>)

parsedObject == IF gen.shape = "value" THEN parsedValue ELSE parsedNode

\* the positions of the registry whose key matches the parsed object
matching ==
    {n \in 1..Len(gen.registry) :
        LET key == gen.registry[n].key IN
        /\ key.tag = ANY \/ key.tag = gen.tag
        /\ gen.shape = "value" => (key.type = ANY \/ key.type = <<"Decimal">>)
        /\ gen.shape = "node" => (key.name = ANY \/ key.name = <<"n">>)}

\* the matching converters that do not return the sentinel
handling == {n \in matching : gen.registry[n].fn = "handle"}

\* the first of them
firstHandling == CHOOSE n \in handling : \A m \in handling : n <= m

\* the matching converters that are to be invoked: all up to the first that
\* does not return the sentinel
invoked == {n \in matching : handling = {} \/ n <= firstHandling}

\* what the native rules make of the parsed value
nativeValue ==
    IF gen.tag = None
    THEN IF parseConfig.nativeUntaggedValues THEN Scalar("float", 10, 1, <<>>)
         ELSE parsedValue
    ELSE IF parseConfig.nativeTaggedValues THEN Scalar("int", 1, 0, <<>>)
         ELSE parsedValue

\* C8: the matching converters are invoked in insertion order, each with the
\* value (or node) as parsed; one that returns NotImplemented is skipped;
\* the first other result is the value and no later converter is invoked;
\* when all return NotImplemented the value as parsed goes to the native
\* rules, and the node as parsed is the node.
C8_ConvertersInOrder ==
    probe.prod \in {"parseValue", "parseBaseNode"} =>
        /\ probe.res.k = "ok"
        /\ Len(probe.res.calls) = Cardinality(invoked)
        /\ \A c \in 1..Len(probe.res.calls) :
              /\ probe.res.calls[c].by \in invoked
              /\ probe.res.calls[c].arg = parsedObject
              /\ \A d \in 1..(c - 1) : probe.res.calls[d].by < probe.res.calls[c].by
        /\ handling # {} =>
              probe.res.v = [ty |-> "Converted", by |-> firstHandling,
                             arg |-> parsedObject]
        /\ handling = {} =>
              probe.res.v = (IF gen.shape = "value" THEN nativeValue ELSE parsedNode)

\* C9: when no converter consumes the value, an untagged value is its scalar
\* exactly when nativeUntaggedValues is set, a tagged value goes through
\* toNative exactly when nativeTaggedValues is set, and otherwise the value
\* is the Value object with its tag; the result of a converter is not touched
\* by the native rules.
C9_NativeRules ==
    probe.prod = "parseValue" =>
        /\ probe.res.k = "ok"
        /\ handling = {} =>
              /\ (gen.tag = None /\ parseConfig.nativeUntaggedValues)
                    <=> probe.res.v = Scalar("float", 10, 1, <<>>)
              /\ (gen.tag # None /\ parseConfig.nativeTaggedValues)
                    <=> probe.res.v = Scalar("int", 1, 0, <<>>)
              /\ probe.res.v \in {Scalar("float", 10, 1, <<>>),
                                   Scalar("int", 1, 0, <<>>), parsedValue}
        /\ handling # {} => probe.res.v.ty = "Converted"

(***************************************************************************)
(* Raw strings in memory: RawString(chars).print(config) for texts of      *)
(* quotes, hashes and a letter, and for the text of a quote followed by    *)
(* MaxHashCount - 1 hashes, which holds every ender the search tries.      *)
(***************************************************************************)
MaxHashTokens == 5

HashTokens == { <<"\"">>, <<"#">>, <<"a">> }

DeepRawText == <<"\"">> \o repeat("#", MaxHashCount - 1)

\* RawString.print(config): the failed assertion of findRequiredHashCount
\* leaves print as an AssertionError
RawString_print(val, config) ==
    IF config.respectStringType /\ findRequiredHashCount(val.str) < 0
    THEN Raise("AssertionError", 0)
    ELSE Ok(printValue(val, config), 0)

InitHash ==
    \E chars \in TextsOf(HashTokens, MaxHashTokens) \cup {DeepRawText} :
        StartState(chars, [shape |-> "rawstring"], PlainConfig)

PrintRawString ==
    /\ pc = "start"
    /\ \E cfg \in PrintConfigs :
          /\ printConfig' = cfg
          /\ probe' = [prod |-> "RawString.print",
                       res |-> RawString_print(RawString(input), cfg)]
    /\ pc' = "probed"
    /\ UNCHANGED <<input, gen, parseConfig, out, text, out2>>

SpecHash == InitHash /\ [][PrintRawString]_vars

\* input holds a quote immediately followed by j hashes
holdsEnder(j) ==
    \E p \in 1..Len(input) :
        /\ input[p] = "\""
        /\ p + j <= Len(input)
        /\ \A q \in 1..j : input[p + q] = "#"

\* the text of a raw string of k hashes around input
rawText(k) ==
    <<"r">> \o [n \in 1..k |-> "#"] \o <<"\"">> \o input \o <<"\"">>
    \o [n \in 1..k |-> "#"]

\* C11: for every string s, RawString.print puts k hashes around s where s
\* does not hold a quote followed by k hashes and holds a quote followed by
\* j hashes for every j < k.
C11_MinimalHashCount ==
    (probe.prod = "RawString.print" /\ printConfig.respectStringType) =>
        /\ probe.res.k = "ok"
        /\ \E k \in 0..(Len(input) + 1) :
              /\ probe.res.v = rawText(k)
              /\ ~holdsEnder(k)
              /\ \A j \in 0..(k - 1) : holdsEnder(j)

\* the same for the strings that need fewer than MaxHashCount hashes
C11_MinimalBelowLimit ==
    (probe.prod = "RawString.print" /\ printConfig.respectStringType
     /\ \E k \in 0..(MaxHashCount - 1) : ~holdsEnder(k)) =>
        /\ probe.res.k = "ok"
        /\ \E k \in 0..(Len(input) + 1) :
              /\ probe.res.v = rawText(k)
              /\ ~holdsEnder(k)
              /\ \A j \in 0..(k - 1) : holdsEnder(j)

\* a string that needs two hashes is printed with two
C11_TwoHashes ==
    /\ probe.prod = "RawString.print"
    /\ printConfig.respectStringType
    /\ input = <<"\"", "#", "a", "\"">>
    /\ probe.res = Ok(rawText(2), 0)

(***************************************************************************)
(* Identifiers in memory: printIdent(x) of a name, tag or property key x,  *)
(* and parseString of the printed text.                                    *)
(***************************************************************************)
MaxIdentTokens == 3

IdentTokens ==
    { <<"a">>, <<"#">>, <<"<">>, <<",">>, <<".">>, <<"1">>, <<"-">>, <<" ">>,
      <<"\"">>, <<"\\">>, <<"DEL">>, <<"i", "n", "f">>, <<"n", "a", "n">>,
      <<"t", "r", "u", "e">>, <<"T", "r", "u", "e">> }

InitIdent ==
    \E chars \in TextsOf(IdentTokens, MaxIdentTokens) :
        StartState(chars, [shape |-> "ident"], PlainConfig)

\* printIdent(input)
PrintIdent ==
    /\ pc = "start"
    /\ text' = printIdent(input)
    /\ pc' = "printed"
    /\ UNCHANGED <<input, gen, parseConfig, printConfig, out, out2, probe>>

\* parseString(Stream(text), 0)
ParsePrinted ==
    /\ pc = "printed"
    /\ gen.shape = "ident"
    /\ probe' = [prod |-> "parseString", start |-> 0,
                 res |-> call("parseString", Stream(text, parseConfig), 0)]
    /\ pc' = "probed"
    /\ UNCHANGED <<input, gen, parseConfig, printConfig, out, text, out2>>

NextIdent == PrintIdent \/ ParsePrinted

SpecIdent == InitIdent /\ [][NextIdent]_vars

\* the parser's identifier-string production accepts input, consumes all of
\* it and yields input
identStringAccepts ==
    call("parseIdentString", Stream(input, parseConfig), 0)
        = Ok(String(input), Len(input))

\* C12: printIdent(x) is x itself exactly when the parser's identifier-string
\* production accepts x whole and yields x, and a quoted string otherwise;
\* parseString of printIdent(x) yields a string of value x.
C12_PrinterAgreesWithGrammar ==
    (pc = "probed" /\ gen.shape = "ident") =>
        /\ isBareIdent(input) <=> identStringAccepts
        /\ IF identStringAccepts THEN text = input
           ELSE Head(text) = "\"" /\ text[Len(text)] = "\""
        /\ probe.res = Ok(String(input), Len(text))

\* the names on which printer and parser do agree: no '#', no '<', no ',',
\* no disallowed literal character, no keyword of the parser that the
\* printer does not know and no '.' before a digit at the start
plainName ==
    /\ \A n \in 1..Len(input) : input[n] \notin {"#", "<", ",", "DEL"}
    /\ lower(input) \in KeywordWords =>
           input \in { <<"t", "r", "u", "e">>, <<"f", "a", "l", "s", "e">>,
                       <<"n", "u", "l", "l">> }
    /\ ~(Len(input) > 1 /\ input[1] = "." /\ isDigit(input[2]))
    /\ ~(Len(input) > 2 /\ isSign(input[1]) /\ input[2] = "." /\ isDigit(input[3]))

C12_AgreesOnPlainNames ==
    (pc = "probed" /\ gen.shape = "ident" /\ plainName) =>
        /\ isBareIdent(input) <=> identStringAccepts
        /\ probe.res = Ok(String(input), Len(text))

(***************************************************************************)
(* Keyword-like identifiers: one of the words true, false, null, inf,      *)
(* -inf, nan in lower case, in upper case or capitalised, followed by at   *)
(* most MaxSuffix more identifier characters, at each place where a string *)
(* is expected.                                                            *)
(***************************************************************************)
MaxSuffix == 1

upperChar(ch) ==
    CASE ch = "a" -> "A" [] ch = "e" -> "E" [] ch = "f" -> "F" [] ch = "i" -> "I"
      [] ch = "l" -> "L" [] ch = "n" -> "N" [] ch = "r" -> "R" [] ch = "s" -> "S"
      [] ch = "t" -> "T" [] ch = "u" -> "U" [] OTHER -> ch

upper(chars) == [n \in 1..Len(chars) |-> upperChar(chars[n])]

\* str.capitalize() of a keyword: the first letter in upper case
capitalized(chars) ==
    IF Head(chars) = "-" THEN <<"-", upperChar(chars[2])>> \o SubSeq(chars, 3, Len(chars))
    ELSE <<upperChar(Head(chars))>> \o Tail(chars)

Spellings == UNION { {w, upper(w), capitalized(w)} : w \in KeywordWords }

SuffixChars == {"s", "1", "-"}

StringPlaces == {"name", "tag", "key", "arg", "value"}

GenWords ==
    [place : StringPlaces, word : Spellings, suffix : SeqsUpTo(SuffixChars, MaxSuffix)]

wordOf(g) == g.word \o g.suffix

\* the text with the word at the place, and the index of the word in it
renderWord(g) ==
    CASE g.place = "name" -> wordOf(g)
      [] g.place = "tag" -> <<"(">> \o wordOf(g) \o <<")", "n">>
      [] g.place = "key" -> <<"n", " ">> \o wordOf(g) \o <<"=", "1">>
      [] g.place = "arg" -> <<"n", " ">> \o wordOf(g)
      [] g.place = "value" -> <<"n", " ", "a", "=">> \o wordOf(g)

wordStart(g) ==
    CASE g.place = "name" -> 0
      [] g.place = "tag" -> 1
      [] g.place = "key" -> 2
      [] g.place = "arg" -> 2
      [] g.place = "value" -> 4

InitWords ==
    \E g \in GenWords : StartState(renderWord(g), g, PlainConfig)

\* parseString at the word
ProbeString ==
    /\ pc = "start"
    /\ gen \in GenWords
    /\ probe' = [prod |-> "parseString", start |-> wordStart(gen),
                 res |-> call("parseString", Stream(input, parseConfig),
                              wordStart(gen))]
    /\ pc' = "probed"
    /\ UNCHANGED <<input, gen, parseConfig, printConfig, out, text, out2>>

NextWords == Parse \/ ProbeString

SpecWords == InitWords /\ [][NextWords]_vars

\* the document of the text when the word is read as a string
wordDocument(g) ==
    LET w == wordOf(g)
        one == Decimal(1, 0, 0)
    IN  Document(<<
          CASE g.place = "name" -> Node(w, None, <<>>, <<>>)
            [] g.place = "tag" -> Node(<<"n">>, w, <<>>, <<>>)
            [] g.place = "key" -> Node(<<"n">>, None, <<[key |-> w, val |-> one]>>, <<>>)
            [] g.place = "arg" ->
                  Node(<<"n">>, None, <<[key |-> None, val |-> String(w)]>>, <<>>)
            [] g.place = "value" ->
                  Node(<<"n">>, None, <<[key |-> <<"a">>, val |-> String(w)]>>, <<>>)
        >>)

\* C13: at every place where a string is expected, a bare identifier that is
\* one of true, false, null, inf, -inf, nan in any letter case makes the
\* parser raise ParseError (no soft failure, no string); a bare identifier
\* that only starts with such a word is read as an identifier-string.
C13_KeywordIdentifiersRaise ==
    gen \in GenWords =>
        /\ pc = "probed" =>
              IF gen.suffix = <<>>
              THEN probe.res.k = "raise" /\ probe.res.v = "ParseError"
              ELSE probe.res = Ok(String(wordOf(gen)), wordStart(gen) + Len(wordOf(gen)))
        /\ pc = "parsed" =>
              IF gen.suffix = <<>>
              THEN out.k = "raise" /\ out.v = "ParseError"
              ELSE out.k = "ok" /\ out.v = wordDocument(gen)

\* the property key -INF makes parse raise ParseError
C13_Witness ==
    /\ pc = "parsed"
    /\ input = <<"n", " ", "-", "I", "N", "F", "=", "1">>
    /\ out.k = "raise"
    /\ out.v = "ParseError"

(***************************************************************************)
(* Keywords: '#' followed by a keyword-like word, or by something that     *)
(* does not start an identifier, at the start of the text or after `n `.   *)
(***************************************************************************)
NotIdentStarts ==
    { <<>>, <<" ">>, <<"\"">>, <<"#">>, <<"(">>, <<"1">>, <<"-", "1">>,
      <<".", "1">>, <<"=">>, <<"\n">> }

KeywordPrefixes == { <<>>, <<"n", " ">> }

GenKeywords ==
    [kind : {"word"}, prefix : KeywordPrefixes, word : Spellings,
     suffix : SeqsUpTo(SuffixChars, MaxSuffix)]
    \cup [kind : {"other"}, prefix : KeywordPrefixes, word : NotIdentStarts,
          suffix : {<<>>}]

renderKeyword(g) == g.prefix \o <<"#">> \o g.word \o g.suffix

InitKeywords ==
    \E g \in GenKeywords : StartState(renderKeyword(g), g, PlainConfig)

\* parseKeyword at the '#'
ProbeKeyword ==
    /\ pc = "start"
    /\ gen \in GenKeywords
    /\ probe' = [prod |-> "parseKeyword", start |-> Len(gen.prefix),
                 res |-> call("parseKeyword", Stream(input, parseConfig),
                              Len(gen.prefix))]
    /\ pc' = "probed"
    /\ UNCHANGED <<input, gen, parseConfig, printConfig, out, text, out2>>

SpecKeywords == InitKeywords /\ [][ProbeKeyword]_vars

\* the value each lowercase keyword stands for
keywordValue(w) ==
    CASE w = <<"t", "r", "u", "e">> -> Bool(TRUE)
      [] w = <<"f", "a", "l", "s", "e">> -> Bool(FALSE)
      [] w = <<"n", "u", "l", "l">> -> Null
      [] w = <<"i", "n", "f">> -> Infinity(1)
      [] w = <<"-", "i", "n", "f">> -> Infinity(-1)
      [] w = <<"n", "a", "n">> -> NaN

\* C14: '#' followed by a bare identifier w gives Bool(true), Bool(false),
\* Null, +infinity, -infinity or NaN exactly when w is the lowercase word
\* true, false, null, inf, -inf or nan; every other w, the same words in
\* another letter case included, raises ParseError; '#' not followed by an
\* identifier start fails softly and consumes nothing.
C14_KeywordsAreLowercase ==
    (pc = "probed" /\ gen \in GenKeywords) =>
        LET w == gen.word \o gen.suffix IN
        IF gen.kind = "other" THEN probe.res = Fail(probe.start)
        ELSE IF w \in KeywordWords
        THEN probe.res = Ok(keywordValue(w), probe.start + 1 + Len(w))
        ELSE probe.res.k = "raise" /\ probe.res.v = "ParseError"

\* `n #NaN` raises ParseError at the '#'
C14_Witness ==
    /\ pc = "probed"
    /\ input = <<"n", " ", "#", "N", "a", "n">>
    /\ probe.prod = "parseKeyword"
    /\ probe.res = Raise("ParseError", 2)

(***************************************************************************)
(* Integers of any size.  A Python int is [neg, mag], mag its magnitude in *)
(* binary, lowest bit first and without high zeros; a Python float that    *)
(* holds a whole number is the same record.                                *)
(***************************************************************************)
Big(neg, mag) == [neg |-> neg /\ mag # <<>>, mag |-> mag]

RECURSIVE bitsOf(_)
bitsOf(n) == IF n = 0 THEN <<>> ELSE <<n % 2>> \o bitsOf(n \div 2)

bigOf(n) == IF n < 0 THEN Big(TRUE, bitsOf(0 - n)) ELSE Big(FALSE, bitsOf(n))

zeros(n) == [k \in 1..n |-> 0]

\* 2 ** n
powerOfTwo(n) == Big(FALSE, zeros(n) \o <<1>>)

RECURSIVE trim(_)
trim(bits) ==
    IF bits = <<>> THEN bits
    ELSE IF bits[Len(bits)] = 0 THEN trim(SubSeq(bits, 1, Len(bits) - 1))
    ELSE bits

RECURSIVE addMag(_, _, _)
addMag(a, b, carry) ==
    IF a = <<>> /\ b = <<>> THEN (IF carry = 1 THEN <<1>> ELSE <<>>)
    ELSE LET x == IF a = <<>> THEN 0 ELSE Head(a)
             y == IF b = <<>> THEN 0 ELSE Head(b)
             sum == x + y + carry
         IN  <<sum % 2>> \o addMag(IF a = <<>> THEN a ELSE Tail(a),
                                   IF b = <<>> THEN b ELSE Tail(b), sum \div 2)

\* a - b for a >= b
RECURSIVE subMag(_, _, _)
subMag(a, b, borrow) ==
    IF a = <<>> THEN <<>>
    ELSE LET y == IF b = <<>> THEN 0 ELSE Head(b)
             diff == Head(a) - y - borrow
         IN  <<IF diff < 0 THEN diff + 2 ELSE diff>>
             \o subMag(Tail(a), IF b = <<>> THEN b ELSE Tail(b),
                       IF diff < 0 THEN 1 ELSE 0)

lessMag(a, b) ==
    \/ Len(a) < Len(b)
    \/ /\ Len(a) = Len(b)
       /\ \E k \in 1..Len(a) :
             a[k] < b[k] /\ \A j \in (k + 1)..Len(a) : a[j] = b[j]

bigNeg(x) == Big(~x.neg, x.mag)

bigAdd(x, y) ==
    IF x.neg = y.neg THEN Big(x.neg, addMag(x.mag, y.mag, 0))
    ELSE IF lessMag(x.mag, y.mag) THEN Big(y.neg, trim(subMag(y.mag, x.mag, 0)))
    ELSE Big(x.neg, trim(subMag(x.mag, y.mag, 0)))

\* x < y and x <= y; Python compares an int with a float by their exact values
bigLess(x, y) ==
    IF x.neg # y.neg THEN x.neg
    ELSE IF x.neg THEN lessMag(y.mag, x.mag)
    ELSE lessMag(x.mag, y.mag)

bigLeq(x, y) == x = y \/ bigLess(x, y)

\* the bits of the significand of a float
MantissaBits == 53

\* float(x) of an int: the nearest float, a tie going to the even significand
float(x) ==
    IF Len(x.mag) <= MantissaBits THEN x
    ELSE LET drop == Len(x.mag) - MantissaBits
             kept == SubSeq(x.mag, drop + 1, Len(x.mag))
             half == x.mag[drop] = 1
             sticky == \E k \in 1..(drop - 1) : x.mag[k] = 1
             up == half /\ (sticky \/ kept[1] = 1)
         IN  Big(x.neg, zeros(drop) \o (IF up THEN addMag(kept, <<1>>, 0) ELSE kept))

\* a Binary, Octal, Hex or Decimal (exponent 0) of an int of any size
BigNumber(ty, big, tag) == [ty |-> ty, big |-> big, tag |-> tag]

\* Value.value: the int of a Binary, Octal or Hex; mantissa * (10.0 ** 0),
\* a float, of a Decimal
bigValue(val) ==
    IF val.ty = "Decimal" THEN [ty |-> "float", big |-> float(val.big)]
    ELSE [ty |-> "int", big |-> val.big]

\* i8, i16, i32, i64 of converters.py
iN(val, bits, errIndex) ==
    LET limit == powerOfTwo(bits - 1) IN
    IF ~(bigLeq(bigNeg(limit), bigValue(val).big) /\ bigLess(bigValue(val).big, limit))
    THEN Raise("ParseError", errIndex)
    ELSE Ok([ty |-> "int", big |-> bigValue(val).big], errIndex)

\* u8, u16, u32, u64 of converters.py
uN(val, bits, errIndex) ==
    LET limit == powerOfTwo(bits) IN
    IF ~(bigLeq(bigOf(0), bigValue(val).big) /\ bigLess(bigValue(val).big, limit))
    THEN Raise("ParseError", errIndex)
    ELSE Ok([ty |-> "int", big |-> bigValue(val).big], errIndex)

\* toNative of a Numberish with one of the integer tags
toNativeInteger(val, errIndex) ==
    CASE val.tag = <<"i", "8">> -> iN(val, 8, errIndex)
      [] val.tag = <<"i", "1", "6">> -> iN(val, 16, errIndex)
      [] val.tag = <<"i", "3", "2">> -> iN(val, 32, errIndex)
      [] val.tag = <<"i", "6", "4">> -> iN(val, 64, errIndex)
      [] val.tag = <<"u", "8">> -> uN(val, 8, errIndex)
      [] val.tag = <<"u", "1", "6">> -> uN(val, 16, errIndex)
      [] val.tag = <<"u", "3", "2">> -> uN(val, 32, errIndex)
      [] val.tag = <<"u", "6", "4">> -> uN(val, 64, errIndex)
      [] OTHER -> Ok(val, errIndex)

(***************************************************************************)
(* Numbers at the limits: v = c + d for c zero or a power of two, negated  *)
(* or not, and |d| <= MaxDelta, as a Binary, Octal, Hex or Decimal tagged  *)
(* iN or uN.                                                               *)
(***************************************************************************)
MaxDelta == 2

LimitExponents == {7, 8, 15, 16, 31, 32, 53, 63, 64}

Centers == {bigOf(0)} \cup UNION { {powerOfTwo(e), bigNeg(powerOfTwo(e))} : e \in LimitExponents }

GenLimits ==
    [ty : {"Binary", "Octal", "Hex", "Decimal"}, signed : BOOLEAN,
     bits : {8, 16, 32, 64}, center : Centers, delta : (0 - MaxDelta)..MaxDelta]

limitValue(g) == bigAdd(g.center, bigOf(g.delta))

limitTag(g) == <<IF g.signed THEN "i" ELSE "u">> \o str(g.bits)

InitLimits ==
    \E g \in GenLimits : StartState(<<>>, g, ParseConfig(FALSE, TRUE, <<>>, <<>>))

\* converters.toNative(val, pf) of the tagged number
ConvertInteger ==
    /\ pc = "start"
    /\ gen \in GenLimits
    /\ probe' = [prod |-> "toNative",
                 res |-> toNativeInteger(
                            BigNumber(gen.ty, limitValue(gen), limitTag(gen)), 0)]
    /\ pc' = "probed"
    /\ UNCHANGED <<input, gen, parseConfig, printConfig, out, text, out2>>

SpecLimits == InitLimits /\ [][ConvertInteger]_vars

\* -2^(N-1) <= v < 2^(N-1) for iN, 0 <= v < 2^N for uN
representable(g) ==
    LET v == limitValue(g) IN
    IF g.signed
    THEN bigLeq(bigNeg(powerOfTwo(g.bits - 1)), v) /\ bigLess(v, powerOfTwo(g.bits - 1))
    ELSE ~v.neg /\ bigLess(v, powerOfTwo(g.bits))

\* C15: a number of integer value v tagged iN converts to exactly v when
\* -2^(N-1) <= v < 2^(N-1) and raises ParseError otherwise; tagged uN it
\* converts to exactly v when 0 <= v < 2^N and raises ParseError otherwise;
\* the largest and the smallest representable value are accepted, their
\* neighbours outside are rejected.
C15_ExactIntegerRanges ==
    (pc = "probed" /\ gen \in GenLimits) =>
        IF representable(gen)
        THEN probe.res = Ok([ty |-> "int", big |-> limitValue(gen)], 0)
        ELSE probe.res = Raise("ParseError", 0)

\* the same for the numbers whose value a float holds exactly: every Binary,
\* Octal and Hex, and the Decimals of at most MantissaBits bits or with zeros
\* below them
C15_ExactWhereFloatIsExact ==
    (pc = "probed" /\ gen \in GenLimits
     /\ (gen.ty = "Decimal" => float(limitValue(gen)) = limitValue(gen))) =>
        IF representable(gen)
        THEN probe.res = Ok([ty |-> "int", big |-> limitValue(gen)], 0)
        ELSE probe.res = Raise("ParseError", 0)

\* the Hex of 2^63 - 1 tagged i64 converts to itself
C15_LargestI64 ==
    /\ pc = "probed"
    /\ gen \in GenLimits
    /\ gen.ty = "Hex" /\ gen.signed /\ gen.bits = 64
    /\ limitValue(gen) = Big(FALSE, [k \in 1..63 |-> 1])
    /\ probe.res = Ok([ty |-> "int", big |-> limitValue(gen)], 0)

(***************************************************************************)
(* Tagged floats: the text (f32)x or (f64)x for a base-10 number x with an *)
(* optional sign, fraction and exponent, read by parseValue with           *)
(* nativeTaggedValues.                                                     *)
(***************************************************************************)
MaxFracDigits == 2

GenFloats ==
    [tag : {TagF32, <<"f", "6", "4">>}, neg : BOOLEAN,
     int : { <<"0">>, <<"1">>, <<"1", "2">> },
     frac : SeqsUpTo({"0", "5"}, MaxFracDigits), exp : {-1, 0, 1}]

renderFloat(g) ==
    <<"(">> \o g.tag \o <<")">> \o (IF g.neg THEN <<"-">> ELSE <<>>) \o g.int
    \o (IF g.frac = <<>> THEN <<>> ELSE <<".">> \o g.frac)
    \o (IF g.exp = 0 THEN <<>> ELSE <<"e">> \o str(g.exp))

InitFloats ==
    \E g \in GenFloats :
        StartState(renderFloat(g), g, ParseConfig(FALSE, TRUE, <<>>, <<>>))

\* parseValue at the start of the text
ProbeTagged ==
    /\ pc = "start"
    /\ gen \in GenFloats
    /\ probe' = [prod |-> "parseValue", start |-> 0,
                 res |-> call("parseValue", Stream(input, parseConfig), 0)]
    /\ pc' = "probed"
    /\ UNCHANGED <<input, gen, parseConfig, printConfig, out, text, out2>>

SpecFloats == InitFloats /\ [][ProbeTagged]_vars

\* the digits of the number as written, as an integer, and the power of ten
\* it is to be multiplied by
writtenDigits(g) ==
    LET m == digitsValue(g.int \o g.frac, 10, 0) IN IF g.neg THEN 0 - m ELSE m

writtenPower(g) == g.exp - Len(g.frac)

\* the scalar sc, num / 10^scale, is the number as written
equalsWritten(sc, g) ==
    IF writtenPower(g) >= 0
    THEN sc.num = writtenDigits(g) * pow(10, writtenPower(g)) * pow(10, sc.scale)
    ELSE sc.num * pow(10, 0 - writtenPower(g)) = writtenDigits(g) * pow(10, sc.scale)

\* C16: a number tagged f32 or f64 converts to a float numerically equal to
\* the number as parsed, its fraction included, and the conversion does not
\* raise.
C16_FloatsKeepTheirValue ==
    (pc = "probed" /\ gen \in GenFloats) =>
        /\ probe.res.k = "ok"
        /\ probe.res.i = Len(input)
        /\ probe.res.v.ty = "float"
        /\ equalsWritten(probe.res.v, gen)

\* what the conversion gives: the int of the number cut at the point
C16_ConvertsToTruncatedInt ==
    (pc = "probed" /\ gen \in GenFloats) =>
        /\ probe.res.k = "ok"
        /\ probe.res.v.ty = "int"
        /\ probe.res.v.scale = 0
        /\ LET d == pow(10, IF writtenPower(gen) < 0 THEN 0 - writtenPower(gen) ELSE 0)
               n == writtenDigits(gen) * pow(10, IF writtenPower(gen) > 0 THEN writtenPower(gen) ELSE 0)
           IN  probe.res.v.num = (IF n >= 0 THEN n \div d ELSE 0 - ((0 - n) \div d))

(***************************************************************************)
(* kdl/types.py: Document.get / __getitem__ / getAll and the same methods  *)
(* of Node, which run the same loop over self.nodes.  A key is a string,   *)
(* [kind |-> "str", name], or a pair, [kind |-> "tuple", tag, name].       *)
(***************************************************************************)
\* tupleFromNodeKey(key): tag, name, passedTag
tupleFromNodeKey_noTag(key) ==
    IF key.kind = "str" THEN <<None, key.name, FALSE>>
    ELSE <<key.tag, key.name, FALSE>>

tupleFromNodeKey(key) ==
    IF key.kind = "str" THEN <<None, key.name, FALSE>>
    ELSE <<key.tag, key.name, TRUE>>

\* the test of the loop body: neither `continue` is taken
keyTakes(node, key) ==
    LET tag == tupleFromNodeKey(key)[1]
        name == tupleFromNodeKey(key)[2]
        passedTag == tupleFromNodeKey(key)[3]
    IN  /\ ~(name # None /\ node.name # name)
        /\ ~(passedTag /\ node.tag # tag)

\* __getitem__: the first node the loop returns, or KeyError
RECURSIVE getitem(_, _)
getitem(nodes, key) ==
    IF nodes = <<>> THEN Raise("KeyError", 0)
    ELSE IF keyTakes(Head(nodes), key) THEN Ok(Head(nodes), 0)
    ELSE getitem(Tail(nodes), key)

\* get(key, default)
get(nodes, key, default) ==
    IF getitem(nodes, key).k = "raise" THEN default ELSE getitem(nodes, key).v

\* getAll(key): the nodes the generator yields, in order
RECURSIVE getAll(_, _)
getAll(nodes, key) ==
    IF nodes = <<>> THEN <<>>
    ELSE (IF keyTakes(Head(nodes), key) THEN <<Head(nodes)>> ELSE <<>>)
         \o getAll(Tail(nodes), key)

(***************************************************************************)
(* Lookups: a Document, or a Node p, holding at most MaxLookupNodes nodes  *)
(* named a or b, untagged or tagged t or u, each with its position as      *)
(* argument; and a key.                                                    *)
(***************************************************************************)
MaxLookupNodes == 3

LookupShapes == [name : { <<"a">>, <<"b">> }, tag : { None, <<"t">>, <<"u">> }]

LookupKeys ==
    [kind : {"str"}, name : { <<"a">>, <<"b">>, <<"c">> }]
    \cup [kind : {"tuple"}, tag : { None, <<"t">> },
          name : { None, <<"a">>, <<"c">> }]

NoNode == [ty |-> "default"]

lookupNodes(shapes) ==
    [n \in 1..Len(shapes) |->
        Node(shapes[n].name, shapes[n].tag,
             <<[key |-> None, val |-> Decimal(n, 0, 0)]>>, <<>>)]

InitLookup ==
    \E shapes \in SeqsUpTo(LookupShapes, MaxLookupNodes), owner \in {"Document", "Node"} :
        /\ input = <<>>
        /\ gen = [shape |-> "lookup", owner |-> owner]
        /\ parseConfig = PlainConfig
        /\ printConfig = printingDefaults
        /\ pc = "start"
        /\ out = Ok(IF owner = "Document" THEN Document(lookupNodes(shapes))
                    ELSE Node(<<"p">>, None, <<>>, lookupNodes(shapes)), 0)
        /\ text = <<>>
        /\ out2 = NoResult
        /\ probe = NoProbe

\* owner.get(key, NoNode) and list(owner.getAll(key)); neither assigns to
\* owner.nodes
Lookup ==
    /\ pc = "start"
    /\ gen.shape = "lookup"
    /\ \E key \in LookupKeys :
          probe' = [prod |-> "get", key |-> key,
                    res |-> get(out.v.nodes, key, NoNode),
                    all |-> getAll(out.v.nodes, key)]
    /\ pc' = "probed"
    /\ UNCHANGED <<input, gen, parseConfig, printConfig, out, text, out2>>

SpecLookup == InitLookup /\ [][Lookup]_vars

\* the key matches the node: a string on the name whatever the tag; a pair
\* on the tag as well, None being the tag of an untagged node, and a None
\* name on every name
keyMatches(node, key) ==
    IF key.kind = "str" THEN node.name = key.name
    ELSE /\ node.tag = key.tag
         /\ key.name = None \/ node.name = key.name

\* the positions of the matching nodes, in order
matchingPositions(nodes, key) ==
    {n \in 1..Len(nodes) : keyMatches(nodes[n], key)}

\* C17: getAll(key) enumerates all and only the matching children in child
\* order; get(key, default) is the first of them, or default when there is
\* none.
C17_GetIsFirstOfGetAll ==
    (pc = "probed" /\ gen.shape = "lookup") =>
        LET nodes == out.v.nodes
            found == matchingPositions(nodes, probe.key)
        IN  /\ Len(probe.all) = Cardinality(found)
            /\ \A n \in found :
                  probe.all[Cardinality({m \in found : m <= n})] = nodes[n]
            /\ probe.res = IF probe.all = <<>> THEN NoNode ELSE probe.all[1]

\* C17 (second part): neither call changes the node list
C17_NodeListUnchanged ==
    [][gen.shape = "lookup" => out' = out]_vars

\* the key (None, a) on the nodes (t)a 1, a 2, a 3 finds the two untagged
\* ones and get returns the first of them
C17_Witness ==
    /\ pc = "probed"
    /\ gen.shape = "lookup"
    /\ probe.key = [kind |-> "tuple", tag |-> None, name |-> <<"a">>]
    /\ Len(out.v.nodes) = 3
    /\ out.v.nodes[1].tag = <<"t">>
    /\ Len(probe.all) = 2
    /\ probe.res = out.v.nodes[2]

(***************************************************************************)
(* Nodes in memory: a node n with at most MaxPrintEntries entries, each an *)
(* argument or a property of key a or b (no key twice, as in a dict), of   *)
(* value 1, 2 or Null, printed under each setting of sortProperties,       *)
(* printNullArgs and printNullProps.                                       *)
(***************************************************************************)
MaxPrintEntries == 3

GenPrintEntries ==
    [key : { None, <<"a">>, <<"b">> },
     val : { Decimal(1, 0, 0), Decimal(2, 0, 0), Null }]

distinctKeys(entries) ==
    \A m, n \in 1..Len(entries) :
        (m # n /\ entries[m].key # None) => entries[m].key # entries[n].key

NodePrintConfigs ==
    { PrintConfig(<<"\t">>, FALSE, nullArgs, nullProps, TRUE, TRUE, "e", sort) :
        nullArgs \in BOOLEAN, nullProps \in BOOLEAN, sort \in BOOLEAN }

InitPrintNode ==
    \E entries \in {q \in SeqsUpTo(GenPrintEntries, MaxPrintEntries) : distinctKeys(q)} :
        /\ input = <<>>
        /\ gen = [shape |-> "print"]
        /\ parseConfig = PlainConfig
        /\ printConfig = printingDefaults
        /\ pc = "start"
        /\ out = Ok(Node(<<"n">>, None, entries, <<>>), 0)
        /\ text = <<>>
        /\ out2 = NoResult
        /\ probe = NoProbe

\* node.print(cfg)
PrintNode ==
    /\ pc = "start"
    /\ gen.shape = "print"
    /\ \E cfg \in NodePrintConfigs :
          /\ printConfig' = cfg
          /\ text' = printNode(out.v, cfg, 0)
    /\ pc' = "printed"
    /\ UNCHANGED <<input, gen, parseConfig, out, out2, probe>>

SpecPrintNode == InitPrintNode /\ [][PrintNode]_vars

\* the positions of the entries that are to be printed: all but the Null
\* arguments without printNullArgs and the Null properties without
\* printNullProps
printedPositions ==
    {n \in 1..Len(out.v.entries) :
        LET e == out.v.entries[n] IN
        ~(e.val.ty = "Null" /\ (IF e.key = None THEN ~printConfig.printNullArgs
                                ELSE ~printConfig.printNullProps))}

\* entry m is to be printed before entry n
printedBefore(m, n) ==
    LET a == out.v.entries[m]
        b == out.v.entries[n]
    IN  IF a.key = None /\ b.key = None THEN m < n
        ELSE IF a.key = None \/ b.key = None THEN a.key = None
        ELSE IF printConfig.sortProperties THEN ord(a.key[1]) < ord(b.key[1])
        ELSE m < n

\* the text of one entry
entryText(e) ==
    <<" ">> \o (IF e.key = None THEN <<>> ELSE e.key \o <<"=">>)
    \o (IF e.val.ty = "Null" THEN <<"n", "u", "l", "l">>
        ELSE IF e.val.num = 1 THEN <<"1">> ELSE <<"2">>)

\* the texts of the printed entries from rank r on
RECURSIVE entriesTextFrom(_)
entriesTextFrom(r) ==
    IF r > Cardinality(printedPositions) THEN <<>>
    ELSE LET n == CHOOSE p \in printedPositions :
                     Cardinality({m \in printedPositions : printedBefore(m, p)}) = r - 1
         IN  entryText(out.v.entries[n]) \o entriesTextFrom(r + 1)

MaxBuiltEntries == 2

BuiltValues ==
    { String(<<"s">>), String(<<"a", "\"", " ">>), RawString(<<"s">>), Bool(TRUE),
      Null, Binary(2), Octal(-7), Hex(31), Decimal(1, 0, 0),
      withTag(Decimal(-12, 0, 0), <<"t">>) }

GenBuiltEntries == [key : { None, <<"a">> }, val : BuiltValues]

\* the arguments first, no key twice: the entries of Node(args=..., props=...)
argsThenProps(entries) ==
    /\ distinctKeys(entries)
    /\ \A m, n \in 1..Len(entries) :
          (m < n /\ entries[n].key = None) => entries[m].key = None

BuiltNames == { <<"n">>, <<"a", " ", "b">>, <<"1">> }

BuiltTags == { None, <<"t">>, <<"1">> }

BuiltChildren == { <<>>, <<Node(<<"c">>, None, <<>>, <<>>)>> }

InitBuilt ==
    \E name \in BuiltNames, tag \in BuiltTags, kids \in BuiltChildren,
       entries \in {q \in SeqsUpTo(GenBuiltEntries, MaxBuiltEntries) : argsThenProps(q)} :
        /\ input = <<>>
        /\ gen = [shape |-> "built"]
        /\ parseConfig = PlainConfig
        /\ printConfig = printingDefaults
        /\ pc = "start"
        /\ out = Ok(Node(name, tag, entries, kids), 0)
        /\ text = <<>>
        /\ out2 = NoResult
        /\ probe = NoProbe

\* N.print()
PrintBuilt ==
    /\ pc = "start"
    /\ gen.shape = "built"
    /\ text' = printNode(out.v, printConfig, 0)
    /\ pc' = "printed"
    /\ UNCHANGED <<input, gen, parseConfig, printConfig, out, out2, probe>>

NextBuilt == PrintBuilt \/ Reparse

SpecBuilt == InitBuilt /\ [][NextBuilt]_vars

\* C19: for every Node N built in memory, of any name and tag and with
\* values of every variant, parse(N.print()) succeeds and yields one node
\* structurally equal to N.
C19_NodeRoundTrip ==
    (pc = "reparsed" /\ gen.shape = "built") =>
        /\ out2.k = "ok"
        /\ out2.v.nodes = <<out.v>>

\* the same for the nodes that hold no Bool, Null or RawString
C19_RoundTripWithoutKeywordsAndRawStrings ==
    (pc = "reparsed" /\ gen.shape = "built"
     /\ \A n \in 1..Len(out.v.entries) :
           out.v.entries[n].val.ty \notin {"Bool", "Null", "RawString"}) =>
        /\ out2.k = "ok"
        /\ out2.v.nodes = <<out.v>>

(***************************************************************************)
(* Numbers of a radix, printed and read back by parseNumber.               *)
(***************************************************************************)
MaxRadixValue == 40

RadixVariants == { "Binary", "Octal", "Hex" }

radixValue(variant, v) ==
    CASE variant = "Binary" -> Binary(v)
      [] variant = "Octal" -> Octal(v)
      [] variant = "Hex" -> Hex(v)

InitRadix ==
    \E variant \in RadixVariants, v \in (0 - MaxRadixValue)..MaxRadixValue,
       respectRadix \in BOOLEAN :
        /\ input = <<>>
        /\ gen = [shape |-> "radix"]
        /\ parseConfig = PlainConfig
        /\ printConfig = [printingDefaults EXCEPT !.respectRadix = respectRadix]
        /\ pc = "start"
        /\ out = Ok(radixValue(variant, v), 0)
        /\ text = <<>>
        /\ out2 = NoResult
        /\ probe = NoProbe

\* Binary.print(config), Octal.print(config), Hex.print(config)
PrintRadix ==
    /\ pc = "start"
    /\ gen.shape = "radix"
    /\ text' = printValue(out.v, printConfig)
    /\ pc' = "printed"
    /\ UNCHANGED <<input, gen, parseConfig, printConfig, out, out2, probe>>

\* parseNumber on the printed text
ReadNumber ==
    /\ pc = "printed"
    /\ gen.shape = "radix"
    /\ out2' = call("parseNumber", Stream(text, parseConfig), 0)
    /\ pc' = "reparsed"
    /\ UNCHANGED <<input, gen, parseConfig, printConfig, out, text, probe>>

NextRadix == PrintRadix \/ ReadNumber

SpecRadix == InitRadix /\ [][NextRadix]_vars

radixPrefix(variant) ==
    CASE variant = "Binary" -> <<"0", "b">>
      [] variant = "Octal" -> <<"0", "o">>
      [] variant = "Hex" -> <<"0", "x">>

\* the text without its minus sign
unsigned(chars) == IF chars # <<>> /\ Head(chars) = "-" THEN Tail(chars) ELSE chars

\* a base-10 numeral of v: an optional minus sign and decimal digits only,
\* of the value v
decimalNumeralOf(chars, v) ==
    /\ unsigned(chars) # <<>>
    /\ \A n \in 1..Len(unsigned(chars)) : isDigit(unsigned(chars)[n])
    /\ (Head(chars) = "-") = (v < 0)
    /\ digitsValue(unsigned(chars), 10, 0) = (IF v < 0 THEN 0 - v ELSE v)

\* C20: for every integer v, negative ones included, and each of Binary, Octal
\* and Hex: with respectRadix true the printed text carries the prefix of the
\* variant and parseNumber reads all of it back as the same variant with the
\* value v; with respectRadix false the text is the base-10 numeral of v and
\* parseNumber reads it back as a Decimal of mantissa v and exponent 0.
C20_RadixRoundTrip ==
    (pc = "reparsed" /\ gen.shape = "radix") =>
        /\ out2.k = "ok"
        /\ out2.i = Len(text)
        /\ IF printConfig.respectRadix
           THEN /\ Len(unsigned(text)) > 2
                /\ SubSeq(unsigned(text), 1, 2) = radixPrefix(out.v.ty)
                /\ out2.v = out.v
           ELSE /\ decimalNumeralOf(text, out.v.num)
                /\ out2.v = Decimal(out.v.num, 0, 0)

\* a negative Hex printed with its prefix and read back
C20_Witness ==
    /\ pc = "reparsed"
    /\ gen.shape = "radix"
    /\ out.v = Hex(-29)
    /\ printConfig.respectRadix
    /\ text = <<"-", "0", "x", "1", "d">>
    /\ out2 = Ok(Hex(-29), 5)

(***************************************************************************)
(* A child block after a node name or after the last entry, with nodespace *)
(* between them or without it.                                             *)
(***************************************************************************)
MaxChildNodes == 2

\* what precedes the child block: the text, and the node it is the text of
ChildHeads ==
    { [text |-> <<"n">>, name |-> <<"n">>, tag |-> None, entries |-> <<>>],
      [text |-> <<"\"", "n", "\"">>, name |-> <<"n">>, tag |-> None, entries |-> <<>>],
      [text |-> <<"(", "t", ")", "n">>, name |-> <<"n">>, tag |-> <<"t">>, entries |-> <<>>],
      [text |-> <<"n", " ", "1">>, name |-> <<"n">>, tag |-> None,
       entries |-> <<[key |-> None, val |-> Decimal(1, 0, 0)]>>],
      [text |-> <<"n", " ", "\"", "s", "\"">>, name |-> <<"n">>, tag |-> None,
       entries |-> <<[key |-> None, val |-> String(<<"s">>)]>>],
      [text |-> <<"n", " ", "a", "=", "1">>, name |-> <<"n">>, tag |-> None,
       entries |-> <<[key |-> <<"a">>, val |-> Decimal(1, 0, 0)]>>] }

\* the nodespace between the head and the block, none included
ChildGaps == { <<>>, <<" ">>, <<"\t">>, <<"/", "*", "*", "/">> }

\* how a node of a child block is written: what is before and after it
ChildLayouts ==
    { [before |-> <<>>, after |-> <<";">>],
      [before |-> <<" ">>, after |-> <<";", " ">>],
      [before |-> <<"\n">>, after |-> <<"\n">>] }

ChildNames == { <<"c">>, <<"d">> }

renderChildBlock(head, gap, kids, layout) ==
    head.text \o gap \o <<"{">>
    \o concatMap(LAMBDA name : layout.before \o name \o layout.after, kids)
    \o <<"}">>

InitChild ==
    \E head \in ChildHeads, gap \in ChildGaps, layout \in ChildLayouts,
       kids \in SeqsUpTo(ChildNames, MaxChildNodes) :
        StartState(renderChildBlock(head, gap, kids, layout),
                   [shape |-> "child", head |-> head, gap |-> gap, kids |-> kids],
                   PlainConfig)

SpecChild == InitChild /\ [][Parse]_vars

\* the node the text is the text of, whatever the gap
childNode ==
    Node(gen.head.name, gen.head.tag, gen.head.entries,
         [j \in 1..Len(gen.kids) |-> Node(gen.kids[j], None, <<>>, <<>>)])

\* C21: a child block is recognized whether or not nodespace separates it
\* from the node name or the last entry: 'name{ ... }' and 'name { ... }' both
\* parse, to the same node with the same children.
C21_ChildBlockWithoutNodespace ==
    (pc = "parsed" /\ gen.shape = "child") =>
        /\ out.k = "ok"
        /\ out.v.nodes = <<childNode>>

\* with nodespace before the block, the node and its children are parsed
C21_ChildBlockAfterNodespace ==
    (pc = "parsed" /\ gen.shape = "child" /\ gen.gap # <<>>) =>
        /\ out.k = "ok"
        /\ out.v.nodes = <<childNode>>

\* without nodespace, parse raises ParseError at the brace
C21_RaisesAtBrace ==
    (pc = "parsed" /\ gen.shape = "child" /\ gen.gap = <<>>) =>
        out = Raise("ParseError", Len(gen.head.text))

(***************************************************************************)
(* Line continuations: the entries of a node continued on the next line    *)
(* with a backslash, for each form of the line break.                      *)
(***************************************************************************)
MaxContinuationIndent == 1

\* the line breaks of the newline class, and single-line comments
LineEnders ==
    { <<"\n">>, <<"\r">>, <<"\r", "\n">>, <<"NEL">>, <<"\f">>, <<"LS">>, <<"PS">>,
      <<"/", "/", "c", "\n">>, <<"/", "/", "\r", "\n">> }

EsclineSpaces == { <<>>, <<" ">>, <<"\t">>, <<"/", "*", "*", "/">> }

GenEsclines ==
    [shape : {"escline"}, ws : EsclineSpaces, ender : LineEnders,
     indent : 0..MaxContinuationIndent]

\* the text before the backslash
esclineHead == <<"n", " ", "1", " ">>

renderEscline(g) ==
    esclineHead \o <<"\\">> \o g.ws \o g.ender \o repeat(" ", g.indent) \o <<"2">>

InitEscline ==
    \E g \in GenEsclines : StartState(renderEscline(g), g, PlainConfig)

\* parseEscline at the backslash
ProbeEscline ==
    /\ pc = "start"
    /\ gen.shape = "escline"
    /\ probe' = [prod |-> "parseEscline", start |-> Len(esclineHead),
                 res |-> call("parseEscline", Stream(input, parseConfig),
                              Len(esclineHead))]
    /\ pc' = "probed"
    /\ UNCHANGED <<input, gen, parseConfig, printConfig, out, text, out2>>

NextEscline == Parse \/ ProbeEscline

SpecEscline == InitEscline /\ [][NextEscline]_vars

\* the index just past the line break of the continuation
pastLineBreak == Len(esclineHead) + 1 + Len(gen.ws) + Len(gen.ender)

\* the one node of the text: n with the arguments 1 and 2
continuedNode ==
    Node(<<"n">>, None,
         <<[key |-> None, val |-> Decimal(1, 0, 0)],
           [key |-> None, val |-> Decimal(2, 0, 0)]>>, <<>>)

esclineOutcome ==
    /\ pc = "probed" => probe.res = Ok(TRUE, pastLineBreak)
    /\ pc = "parsed" => out.k = "ok" /\ out.v.nodes = <<continuedNode>>

\* C22: parseEscline succeeds, consuming through the line break, for a
\* backslash, optional whitespace and any newline of the newline class (LF, CR,
\* CRLF, NEL, FF, LS, PS) or a single-line comment; a node whose entries are
\* continued on the next line with a backslash parses as one node for every
\* newline form.
C22_EsclineEveryNewline ==
    gen.shape = "escline" => esclineOutcome

\* the same for a line feed and for a single-line comment only
C22_EsclineLineFeedOrComment ==
    (gen.shape = "escline" /\ (gen.ender = <<"\n">> \/ Head(gen.ender) = "/")) =>
        esclineOutcome

\* for the other newlines parseEscline fails softly and parse raises
C22_OtherNewlinesFail ==
    (gen.shape = "escline" /\ gen.ender # <<"\n">> /\ Head(gen.ender) # "/") =>
        /\ pc = "probed" => probe.res = Fail(Len(esclineHead))
        /\ pc = "parsed" => out = Raise("ParseError", Len(esclineHead))

(***************************************************************************)
(* Block comments: parseBlockComment called at the opener of a comment     *)
(* whose text is made of slashes, stars and letters.                       *)
(***************************************************************************)
MaxCommentChars == 6

CommentChars == { <<"/">>, <<"*">>, <<"a">> }

commentOpener == <<"/", "*">>

InitComment ==
    \E body \in TextsOf(CommentChars, MaxCommentChars) :
        StartState(commentOpener \o body, [shape |-> "comment"], PlainConfig)

\* parseBlockComment at the opener
ProbeBlockComment ==
    /\ pc = "start"
    /\ gen.shape = "comment"
    /\ probe' = [prod |-> "parseBlockComment", start |-> 0,
                 res |-> call("parseBlockComment", Stream(input, parseConfig), 0)]
    /\ pc' = "probed"
    /\ UNCHANGED <<input, gen, parseConfig, printConfig, out, text, out2>>

SpecComment == InitComment /\ [][ProbeBlockComment]_vars

\* the text has the two characters at the index i (from 0)
hasPair(chars, i, first, second) ==
    i + 2 <= Len(chars) /\ chars[i + 1] = first /\ chars[i + 2] = second

\* scanning from the index i at a nesting depth: the index just past the
\* closer that brings the depth to zero, if the text does not end before
RECURSIVE depthScan(_, _, _)
depthScan(chars, i, depth) ==
    IF depth = 0 THEN [closed |-> TRUE, i |-> i]
    ELSE IF i >= Len(chars) THEN [closed |-> FALSE, i |-> i]
    ELSE IF hasPair(chars, i, "*", "/") THEN depthScan(chars, i + 2, depth - 1)
    ELSE IF hasPair(chars, i, "/", "*") THEN depthScan(chars, i + 2, depth + 1)
    ELSE depthScan(chars, i + 1, depth)

\* C23: parseBlockComment called at a '/*' returns the index just past the
\* '*/' that brings the nesting depth back to zero, every '/*' raising the
\* depth by one and every '*/' lowering it by one from after the opener; when
\* the text ends while the depth is positive it raises ParseError, and returns
\* neither a soft failure nor a success.
C23_BlockCommentNesting ==
    (pc = "probed" /\ gen.shape = "comment") =>
        LET end == depthScan(input, Len(commentOpener), 1) IN
        IF end.closed
        THEN probe.res = Ok(TRUE, end.i)
        ELSE probe.res.k = "raise" /\ probe.res.v = "ParseError"

\* a comment in a comment, closed, with a star after it
C23_Witness ==
    /\ pc = "probed"
    /\ gen.shape = "comment"
    /\ input = <<"/", "*", "/", "*", "*", "/", "*", "/">>
    /\ probe.res = Ok(TRUE, 8)

\* a comment in a comment whose outer closer is missing
C23_WitnessUnclosed ==
    /\ pc = "probed"
    /\ gen.shape = "comment"
    /\ input = <<"/", "*", "/", "*", "a", "*", "/", "a">>
    /\ probe.res = Raise("ParseError", 0)

(***************************************************************************)
(* Multiline strings: the opening quotes, what follows them on their line, *)
(* body lines of an indent and a text, and a final line of a prefix, maybe *)
(* some content, and the closing quotes.                                   *)
(***************************************************************************)
MaxBodyLines == 2

LineIndents == { <<>>, <<" ">>, <<" ", " ">>, <<"\t">> }

\* the text of a line after its leading whitespace: it starts with no
\* whitespace, and has no backslash, newline or run of three quotes
LineTexts == { <<>>, <<"a", " ">>, <<"\"", "a">> }

GenLines == [indent : LineIndents, text : LineTexts]

DedentPrefixes == { <<>>, <<" ">>, <<" ", " ">>, <<"\t">> }

LineBreaks == { <<"\n">>, <<"\r", "\n">> }

\* what follows the opening quotes on their line
AfterOpening == { <<>>, <<"a">>, <<" ">> }

\* what follows the prefix on the final line
FinalContents == { <<>>, <<"a">> }

\* what follows the closing quotes: the string is read up to them
AfterClosing == { <<>>, <<" ">> }

tripleQuote == <<"\"", "\"", "\"">>

renderMultiline(g) ==
    tripleQuote \o g.first \o g.nl
    \o concatMap(LAMBDA l : l.indent \o l.text \o g.nl, g.lines)
    \o g.prefix \o g.tail \o tripleQuote \o g.after

InitMultiline ==
    \E lines \in SeqsUpTo(GenLines, MaxBodyLines), prefix \in DedentPrefixes,
       nl \in LineBreaks, first \in AfterOpening, tail \in FinalContents,
       after \in AfterClosing :
        LET g == [shape |-> "multiline", lines |-> lines, prefix |-> prefix,
                  nl |-> nl, first |-> first, tail |-> tail, after |-> after]
        IN  StartState(renderMultiline(g), g, PlainConfig)

\* parseString at the opening quotes
ProbeMultiline ==
    /\ pc = "start"
    /\ gen.shape = "multiline"
    /\ probe' = [prod |-> "parseString", start |-> 0,
                 res |-> call("parseString", Stream(input, parseConfig), 0)]
    /\ pc' = "probed"
    /\ UNCHANGED <<input, gen, parseConfig, printConfig, out, text, out2>>

SpecMultiline == InitMultiline /\ [][ProbeMultiline]_vars

\* the line holds only whitespace
blankLine(l) == l.text = <<>>

\* the line with the prefix removed, or nothing for a blank line
withoutPrefix(l, prefix) ==
    IF blankLine(l) THEN <<>>
    ELSE SubSeq(l.indent \o l.text, Len(prefix) + 1, Len(l.indent) + Len(l.text))

\* the lines with the prefix removed, a line feed between them
RECURSIVE joinedLines(_, _)
joinedLines(lines, prefix) ==
    IF lines = <<>> THEN <<>>
    ELSE IF Len(lines) = 1 THEN withoutPrefix(lines[1], prefix)
    ELSE withoutPrefix(lines[1], prefix) \o <<"\n">> \o joinedLines(Tail(lines), prefix)

\* a line that is not blank and does not start with the prefix
badlyIndented(l, prefix) ==
    /\ ~blankLine(l)
    /\ \/ Len(l.indent) < Len(prefix)
       \/ SubSeq(l.indent, 1, Len(prefix)) # prefix

\* C24: for a multiline string whose opening quotes are followed by a newline,
\* with body lines L1..Ln and a final line of a whitespace prefix P before the
\* closing quotes, the result is L1'..Ln' joined with line feeds, where Li' is
\* empty when Li holds only whitespace and Li without its leading P otherwise;
\* a line that is not blank and whose leading whitespace does not start with P
\* raises ParseError, as do content on the final line and content after the
\* opening quotes on their line.  The body lines hold no run of three quotes,
\* and no quote follows the closing quotes.
C24_MultilineDedent ==
    (pc = "probed" /\ gen.shape = "multiline") =>
        IF \/ gen.first # <<>>
           \/ gen.tail # <<>>
           \/ \E n \in 1..Len(gen.lines) : badlyIndented(gen.lines[n], gen.prefix)
        THEN probe.res.k = "raise" /\ probe.res.v = "ParseError"
        ELSE probe.res = Ok(String(joinedLines(gen.lines, gen.prefix)),
                            Len(input) - Len(gen.after))

\* a line indented deeper than the prefix and a blank line that does not
\* start with the prefix
C24_Witness ==
    /\ pc = "probed"
    /\ gen.shape = "multiline"
    /\ gen.first = <<>> /\ gen.tail = <<>>
    /\ gen.prefix = <<" ", " ">>
    /\ gen.lines = <<[indent |-> <<" ", " ">>, text |-> <<"a", " ">>],
                     [indent |-> <<"\t">>, text |-> <<>>]>>
    /\ probe.res.k = "ok"
    /\ probe.res.v = String(<<"a", " ", "\n">>)

(***************************************************************************)
(* Escapes: parseEscape called at a backslash followed by one character,   *)
(* by a unicode escape, or by a run of whitespace and newlines.            *)
(***************************************************************************)
MaxHexDigits == 7

MaxEscapedRun == 2

\* the character after the backslash, "" at the end of the text
EscapeChars ==
    { "n", "r", "t", "\\", "\"", "b", "f", "s", "", "a", "x", "/", "0", "N", "{", "'" }

EscapeHexDigits == { "0", "1", "d", "F" }

EscapeOpeners == { <<"{">>, <<>> }

EscapeClosers == { <<"}">>, <<>> }

EscapedSpaces == { " ", "\t", "\n", "\r", "NEL", "LS", "NBSP" }

\* what follows the escape
EscapeTails == { <<>>, <<"x">> }

GenEscapes ==
    [shape : {"escape"}, kind : {"char"}, ch : EscapeChars, open : {<<>>},
     digits : {<<>>}, close : {<<>>}, run : {<<>>}, tail : EscapeTails]
    \cup [shape : {"escape"}, kind : {"unicode"}, ch : {"u"}, open : EscapeOpeners,
          digits : SeqsUpTo(EscapeHexDigits, MaxHexDigits), close : EscapeClosers,
          run : {<<>>}, tail : EscapeTails]
    \cup [shape : {"escape"}, kind : {"space"}, ch : {""}, open : {<<>>},
          digits : {<<>>}, close : {<<>>},
          run : SeqsUpTo(EscapedSpaces, MaxEscapedRun) \ {<<>>}, tail : EscapeTails]

renderEscape(g) ==
    <<"\\">> \o (IF g.ch = "" THEN <<>> ELSE <<g.ch>>)
    \o g.open \o g.digits \o g.close \o g.run \o g.tail

InitEscape ==
    \E g \in GenEscapes : StartState(renderEscape(g), g, PlainConfig)

\* parseEscape at the backslash
ProbeEscape ==
    /\ pc = "start"
    /\ gen.shape = "escape"
    /\ probe' = [prod |-> "parseEscape", start |-> 0,
                 res |-> call("parseEscape", Stream(input, parseConfig), 0)]
    /\ pc' = "probed"
    /\ UNCHANGED <<input, gen, parseConfig, printConfig, out, text, out2>>

SpecEscape == InitEscape /\ [][ProbeEscape]_vars

\* the character of a one-letter escape
letterEscapes ==
    ("n" :> "\n") @@ ("r" :> "\r") @@ ("t" :> "\t") @@ ("\\" :> "\\")
    @@ ("\"" :> "\"") @@ ("b" :> "BS") @@ ("f" :> "\f") @@ ("s" :> " ")

\* the value of a hex numeral of at most six digits
RECURSIVE hexNumeral(_)
hexNumeral(digits) ==
    IF digits = <<>> THEN 0
    ELSE 16 * hexNumeral(SubSeq(digits, 1, Len(digits) - 1))
         + HexDigitValue(digits[Len(digits)])

\* a codepoint a unicode escape may encode
encodable(cp) == cp <= 1114111 /\ ~(55296 <= cp /\ cp <= 57343)

raisesParseError(res) == res.k = "raise" /\ res.v = "ParseError"

\* C25: parseEscape maps \n, \r, \t, \\, \", \b, \f and \s to newline, carriage
\* return, tab, backslash, quote, backspace, form feed and space; \u{H} of 1 to
\* 6 hex digits, of a value at most 0x10FFFF and no surrogate, to that
\* codepoint; a backslash followed by whitespace or newline characters to the
\* empty string, consuming all of them; and raises ParseError for everything
\* else.
C25_Escapes ==
    (pc = "probed" /\ gen.shape = "escape") =>
        CASE gen.kind = "char" ->
                IF gen.ch \in DOMAIN letterEscapes
                THEN probe.res = Ok(<<letterEscapes[gen.ch]>>, 2)
                ELSE raisesParseError(probe.res)
          [] gen.kind = "unicode" ->
                IF /\ gen.open = <<"{">>
                   /\ gen.close = <<"}">>
                   /\ Len(gen.digits) \in 1..6
                   /\ encodable(hexNumeral(gen.digits))
                THEN /\ probe.res.k = "ok"
                     /\ probe.res.v = <<chr(hexNumeral(gen.digits))>>
                     /\ probe.res.i = Len(input) - Len(gen.tail)
                ELSE raisesParseError(probe.res)
          [] gen.kind = "space" ->
                probe.res = Ok(<<>>, 1 + Len(gen.run))

\* the escape of the last codepoint
C25_Witness ==
    /\ pc = "probed"
    /\ gen.shape = "escape"
    /\ input = <<"\\", "u", "{", "1", "0", "F", "F", "F", "F", "}", "x">>
    /\ probe.res = Ok(<<chr(1114111)>>, 10)

\* a surrogate
C25_WitnessSurrogate ==
    /\ pc = "probed"
    /\ gen.shape = "escape"
    /\ input = <<"\\", "u", "{", "d", "F", "0", "0", "}">>
    /\ raisesParseError(probe.res)

(***************************************************************************)
(* Literals with a radix prefix: an optional sign, 0b, 0o or 0x, and a     *)
(* body of digits, underscores, dots and exponent markers, as the argument *)
(* of a node.                                                              *)
(***************************************************************************)
MaxLiteralChars == 4

LiteralSigns == { <<>>, <<"+">>, <<"-">> }

RadixLetters == { "b", "o", "x" }

LiteralChars == { "0", "1", "7", "F", "_", ".", "e" }

GenLiterals ==
    [shape : {"literal"}, sign : LiteralSigns, letter : RadixLetters,
     body : SeqsUpTo(LiteralChars, MaxLiteralChars)]

\* the text before the literal
literalHead == <<"n", " ">>

renderLiteral(g) == literalHead \o g.sign \o <<"0", g.letter>> \o g.body

InitLiteral ==
    \E g \in GenLiterals : StartState(renderLiteral(g), g, PlainConfig)

\* parseNumber at the literal
ProbeNumber ==
    /\ pc = "start"
    /\ gen.shape = "literal"
    /\ probe' = [prod |-> "parseNumber", start |-> Len(literalHead),
                 res |-> call("parseNumber", Stream(input, parseConfig),
                              Len(literalHead))]
    /\ pc' = "probed"
    /\ UNCHANGED <<input, gen, parseConfig, printConfig, out, text, out2>>

NextLiteral == Parse \/ ProbeNumber

SpecLiteral == InitLiteral /\ [][NextLiteral]_vars

\* the digits of a radix
radixDigits(letter) ==
    CASE letter = "b" -> { "0", "1" }
      [] letter = "o" -> { "0", "1", "2", "3", "4", "5", "6", "7" }
      [] letter = "x" -> { "0", "1", "2", "3", "4", "5", "6", "7", "8", "9",
                           "a", "b", "c", "d", "e", "f", "A", "B", "C", "D", "E", "F" }

radixBase(letter) == CASE letter = "b" -> 2 [] letter = "o" -> 8 [] letter = "x" -> 16

\* the number of leading characters that are digits of the radix or '_'
RECURSIVE literalRun(_, _)
literalRun(body, letter) ==
    IF body # <<>> /\ Head(body) \in radixDigits(letter) \cup {"_"}
    THEN 1 + literalRun(Tail(body), letter)
    ELSE 0

\* the magnitude of digits and underscores read in a base
RECURSIVE magnitude(_, _)
magnitude(chars, base) ==
    IF chars = <<>> THEN 0
    ELSE LET front == SubSeq(chars, 1, Len(chars) - 1)
             last == chars[Len(chars)]
         IN  IF last = "_" THEN magnitude(front, base)
             ELSE base * magnitude(front, base) + HexDigitValue(last)

literalValue(g) ==
    LET m == magnitude(SubSeq(g.body, 1, literalRun(g.body, g.letter)),
                       radixBase(g.letter))
        v == IF g.sign = <<"-">> THEN 0 - m ELSE m
    IN  CASE g.letter = "b" -> Binary(v)
          [] g.letter = "o" -> Octal(v)
          [] g.letter = "x" -> Hex(v)

\* C26: for a literal of an optional sign, a prefix 0b, 0o or 0x and digits,
\* the value is the sign times the magnitude of the digits in the radix with
\* every '_' removed; the first character after the prefix must be a digit of
\* the radix, an underscore or anything else there raises ParseError; the
\* literal ends at the first character that is neither a digit of the radix nor
\* '_', and a '.', an exponent marker or another character after it is not
\* absorbed: the enclosing parse raises ParseError.
C26_PrefixedLiterals ==
    gen.shape = "literal" =>
        LET run == literalRun(gen.body, gen.letter)
            start == Len(literalHead)
            end == start + Len(gen.sign) + 2 + run
        IN  IF gen.body = <<>> \/ Head(gen.body) \notin radixDigits(gen.letter)
            THEN /\ pc = "probed" => raisesParseError(probe.res)
                 /\ pc = "parsed" => raisesParseError(out)
            ELSE /\ pc = "probed" => probe.res = Ok(literalValue(gen), end)
                 /\ pc = "parsed" =>
                       IF run = Len(gen.body)
                       THEN /\ out.k = "ok"
                            /\ out.v.nodes
                               = <<Node(<<"n">>, None,
                                        <<[key |-> None, val |-> literalValue(gen)]>>,
                                        <<>>)>>
                       ELSE out = Raise("ParseError", end)

\* a negative hex literal with an underscore, followed by a dot: the number
\* ends before the dot
C26_Witness ==
    /\ pc = "probed"
    /\ gen.shape = "literal"
    /\ input = <<"n", " ", "-", "0", "x", "1", "_", "F", ".">>
    /\ probe.res = Ok(Hex(-31), 8)

\* a binary literal followed by an exponent marker: parse raises
C26_WitnessExponent ==
    /\ pc = "parsed"
    /\ gen.shape = "literal"
    /\ input = <<"n", " ", "0", "b", "1", "e", "1">>
    /\ out = Raise("ParseError", 5)

(***************************************************************************)
(* The loops of the parser, one iteration at a time.  An iteration at the  *)
(* index i of the loop variable continues at another index, leaves the     *)
(* loop (break or return), or raises.  The productions an iteration calls  *)
(* are taken whole.                                                        *)
(***************************************************************************)
Continue(i) == [k |-> "continue", i |-> i]

Leave(i) == [k |-> "leave", i |-> i]

Raised(i) == [k |-> "raise", i |-> i]

\* the while loop of parse
parse_iteration(s, i) ==
    LET ls == call("parseLinespace", s, i) IN
    IF ls.k = "raise" THEN Raised(i)
    ELSE LET node == call("parseBaseNode", s, ls.i) IN
         IF node.k = "raise" THEN Raised(i)
         ELSE IF node.k = "fail" THEN Leave(node.i)
         ELSE LET term == call("parseNodeTerminator", s, node.i) IN
              IF term.k = "fail" THEN Raised(term.i) ELSE Continue(term.i)

\* the while loop of parseNodeChildren
parseNodeChildren_iteration(s, i) ==
    LET ls == call("parseLinespace", s, i) IN
    IF ls.k = "raise" THEN Raised(i)
    ELSE LET node == call("parseBaseNode", s, ls.i) IN
         IF node.k = "raise" THEN Raised(i)
         ELSE IF node.k = "fail" THEN Leave(node.i)
         ELSE LET term == call("parseNodeTerminator", s, node.i) IN
              IF term.k = "fail" THEN Leave(term.i) ELSE Continue(term.i)

\* the loop of parseBaseNode over the props and args, at tempI
parseBaseNode_entries_iteration(s, tempI) ==
    LET space == call("parseNodespace", s, tempI) IN
    IF space.k = "raise" THEN Raised(tempI)
    ELSE IF space.k = "fail" THEN Leave(tempI)
    ELSE LET sd == call("parseSlashDash", s, space.i) IN
         IF sd.k = "raise" THEN Raised(tempI)
         ELSE LET entry == call("parseEntry", s, sd.i) IN
              IF entry.k = "raise" THEN Raised(tempI)
              ELSE IF entry.k = "fail" THEN Leave(entry.i)
              ELSE Continue(entry.i)

\* the loops of parseBaseNode over the slashdashed children, before and after
\* the real children, at tempI
parseBaseNode_slashdashed_iteration(s, tempI) ==
    LET space == call("parseNodespace", s, tempI) IN
    IF space.k = "raise" THEN Raised(tempI)
    ELSE IF space.k = "fail" THEN Leave(tempI)
    ELSE LET sd == call("parseSlashDash", s, space.i) IN
         IF sd.k = "raise" THEN Raised(tempI)
         ELSE IF sd.k = "fail" THEN Leave(sd.i)
         ELSE LET children == call("parseNodeChildren", s, sd.i) IN
              IF children.k = "raise" THEN Raised(tempI)
              ELSE IF children.k = "fail" THEN Leave(children.i)
              ELSE Continue(children.i)

\* the loop of parseBaseNode over the real children, at tempI: every path
\* through its body ends in a break
parseBaseNode_children_iteration(s, tempI) ==
    LET space == call("parseNodespace", s, tempI) IN
    IF space.k = "raise" THEN Raised(tempI)
    ELSE IF space.k = "fail" THEN Leave(tempI)
    ELSE LET children == call("parseNodeChildren", s, space.i) IN
         IF children.k = "raise" THEN Raised(tempI) ELSE Leave(children.i)

\* the while loop of parseLinespace
parseLinespace_iteration(s, i) ==
    LET nl == call("parseNewline", s, i)
        ws == call("parseNodespace", s, nl.i)
    IN  IF ws.k = "raise" THEN Raised(i)
        ELSE LET sc == call("parseSingleLineComment", s, ws.i) IN
             IF nl.k # "ok" /\ ws.k # "ok" /\ sc.k # "ok" THEN Leave(sc.i)
             ELSE Continue(sc.i)

\* the while loop of parseNodespace
parseNodespace_iteration(s, i) ==
    LET ws == call("parseWhitespace", s, i) IN
    IF ws.k = "raise" THEN Raised(i)
    ELSE LET escline == call("parseEscline", s, ws.i) IN
         IF escline.k = "raise" THEN Raised(i)
         ELSE IF escline.k # "ok" THEN Leave(escline.i)
         ELSE Continue(escline.i)

\* the while loop of parseWhitespace
parseWhitespace_iteration(s, i) ==
    LET sp == call("parseUnicodeSpace", s, i)
        bc == call("parseBlockComment", s, sp.i)
    IN  IF bc.k = "raise" THEN Raised(i)
        ELSE IF sp.k # "ok" /\ bc.k # "ok" THEN Leave(bc.i)
        ELSE Continue(bc.i)

\* the while loop of parseSlashDash
parseSlashDash_iteration(s, i) ==
    LET s1 == call("parseLinespace", s, i) IN
    IF s1.k = "raise" THEN Raised(i)
    ELSE LET s2 == call("parseNodespace", s, s1.i) IN
         IF s2.k = "raise" THEN Raised(i)
         ELSE IF s1.k # "ok" /\ s2.k # "ok" THEN Leave(s2.i)
         ELSE Continue(s2.i)

\* the while loop of parseQuotedString
parseQuotedString_iteration(s, i, hashCount) ==
    IF S(s, i) = "\"" /\ hashCount = 0
    THEN IF S(s, i + 1) = "#" \/ S(s, i + 1) = "\"" THEN Raised(i) ELSE Leave(i + 1)
    ELSE IF S(s, i) = "\"" /\ hashCount > 0
    THEN IF S(s, i + 1) # "#" THEN Continue(i + 1)
         ELSE LET hashes == parseRepeatedChar(s, i + 1, "#") IN
              IF hashes.v < hashCount THEN Continue(hashes.i)
              ELSE IF hashes.v > hashCount THEN Raised(i)
              ELSE Leave(hashes.i)
    ELSE IF S(s, i) = "" THEN Raised(i)
    ELSE IF valid(call("parseNewline", s, i)) THEN Raised(i)
    ELSE IF S(s, i) = "\\" /\ hashCount = 0
    THEN LET esc == call("parseEscape", s, i) IN
         IF esc.k # "ok" THEN Raised(esc.i) ELSE Continue(esc.i)
    ELSE Continue(i + 1)

\* the while loop of parseMultilineString
parseMultilineString_iteration(s, i, hashCount) ==
    LET nl == call("parseNewline", s, i) IN
    IF nl.k = "ok" THEN Continue(call("parseUnicodeSpace", s, nl.i).i)
    ELSE IF S(s, i) = "\""
    THEN LET quotes == parseRepeatedChar(s, i, "\"") IN
         IF quotes.v \in {1, 2} THEN Continue(quotes.i)
         ELSE IF quotes.v # 3 THEN Raised(i)
         ELSE IF hashCount = 0 THEN (IF S(s, quotes.i) = "#" THEN Raised(i)
                                     ELSE Leave(quotes.i))
         ELSE IF S(s, quotes.i) # "#" THEN Continue(quotes.i)
         ELSE LET hashes == parseRepeatedChar(s, quotes.i, "#") IN
              IF hashes.v < hashCount THEN Continue(hashes.i)
              ELSE IF hashes.v > hashCount THEN Raised(i)
              ELSE Leave(hashes.i)
    ELSE IF S(s, i) = "" THEN Raised(i)
    ELSE IF S(s, i) = "\\" /\ hashCount = 0
    THEN LET esc == call("parseEscape", s, i) IN
         IF esc.k # "ok" THEN Raised(esc.i) ELSE Continue(esc.i)
    ELSE Continue(i + 1)

\* the loop of a parseBlockComment that loses the index of a nested comment
parseBlockComment_iteration_stuck(s, i) ==
    IF eof(s, i) THEN Raised(i)
    ELSE IF S(s, i) = "*" /\ S(s, i + 1) = "/" THEN Leave(i + 2)
    ELSE IF S(s, i) = "/" /\ S(s, i + 1) = "*"
    THEN LET inner == call("parseBlockComment", s, i) IN
         IF inner.k = "raise" THEN Raised(i) ELSE Continue(i)
    ELSE Continue(i + 1)

\* the while loop of parseBlockComment
parseBlockComment_iteration(s, i) ==
    IF eof(s, i) THEN Raised(i)
    ELSE IF S(s, i) = "*" /\ S(s, i + 1) = "/" THEN Leave(i + 2)
    ELSE IF S(s, i) = "/" /\ S(s, i + 1) = "*"
    THEN LET inner == call("parseBlockComment", s, i) IN
         IF inner.k = "raise" THEN Raised(i) ELSE Continue(inner.i)
    ELSE Continue(i + 1)

Loops ==
    { "parse", "parseNodeChildren", "parseBaseNode.entries",
      "parseBaseNode.slashdashed", "parseBaseNode.children", "parseLinespace",
      "parseNodespace", "parseWhitespace", "parseSlashDash", "parseQuotedString",
      "parseMultilineString", "parseBlockComment" }

\* one iteration of a loop by its name
iteration(loop, s, i, hashCount) ==
    CASE loop = "parse" -> parse_iteration(s, i)
      [] loop = "parseNodeChildren" -> parseNodeChildren_iteration(s, i)
      [] loop = "parseBaseNode.entries" -> parseBaseNode_entries_iteration(s, i)
      [] loop = "parseBaseNode.slashdashed" -> parseBaseNode_slashdashed_iteration(s, i)
      [] loop = "parseBaseNode.children" -> parseBaseNode_children_iteration(s, i)
      [] loop = "parseLinespace" -> parseLinespace_iteration(s, i)
      [] loop = "parseNodespace" -> parseNodespace_iteration(s, i)
      [] loop = "parseWhitespace" -> parseWhitespace_iteration(s, i)
      [] loop = "parseSlashDash" -> parseSlashDash_iteration(s, i)
      [] loop = "parseQuotedString" -> parseQuotedString_iteration(s, i, hashCount)
      [] loop = "parseMultilineString" -> parseMultilineString_iteration(s, i, hashCount)
      [] loop = "parseBlockComment" -> parseBlockComment_iteration(s, i)

(***************************************************************************)
(* Termination: a loop entered at the start of a text, iterated until it   *)
(* leaves or raises.  The texts are closed under suffixes, and no loop     *)
(* reads behind its index, so the start of a text stands for every index.  *)
(* A loop whose index moves forward on every iteration that stays in the   *)
(* loop, and never moves past the end of the text, does at most as many    *)
(* such iterations as the text has characters.                             *)
(***************************************************************************)
MaxLoopTokens == 3

LoopTokens ==
    { <<"a">>, <<" ">>, <<"\n">>, <<";">>, <<"\\">>, <<"\"">>, <<"#">>,
      <<"/", "*">>, <<"*", "/">>, <<"/", "-">>, <<"/", "/">>, <<"{">>, <<"}">> }

\* the hash counts a string loop is entered with
loopHashCounts(loop) ==
    IF loop \in {"parseQuotedString", "parseMultilineString"} THEN {0, 1} ELSE {0}

InitLoops ==
    /\ input = <<>>
    /\ gen = [shape |-> "loop", loop |-> "parse", hashCount |-> 0]
    /\ parseConfig = PlainConfig
    /\ printConfig = printingDefaults
    /\ pc = "start"
    /\ out = NoResult
    /\ text = <<>>
    /\ out2 = NoResult
    /\ probe = NoProbe

\* a loop is entered on a text
EnterLoop ==
    /\ pc = "start"
    /\ gen.shape = "loop"
    /\ \E chars \in TextsOf(LoopTokens, MaxLoopTokens), loop \in Loops :
          \E hashCount \in loopHashCounts(loop) :
              /\ input' = chars
              /\ gen' = [shape |-> "loop", loop |-> loop, hashCount |-> hashCount]
              /\ probe' = [prod |-> loop, i |-> 0, iterations |-> 0]
    /\ pc' = "looping"
    /\ UNCHANGED <<parseConfig, printConfig, out, text, out2>>

\* one iteration of the loop
Iterate ==
    /\ pc = "looping"
    /\ gen.shape = "loop"
    /\ LET r == call("iteration",
                     [loop |-> gen.loop, stream |-> Stream(input, parseConfig),
                      hashCount |-> gen.hashCount],
                     probe.i)
       IN  /\ probe' = [probe EXCEPT !.i = r.i, !.iterations = @ + 1]
           /\ pc' = IF r.k = "continue" THEN "looping"
                    ELSE IF r.k = "leave" THEN "left" ELSE "raised"
    /\ UNCHANGED <<input, gen, parseConfig, printConfig, out, text, out2>>

NextLoops == EnterLoop \/ Iterate

SpecLoops == InitLoops /\ [][NextLoops]_vars

\* an iteration that does not leave the loop moves the index forward
advances == (pc = "looping" /\ pc' = "looping") => probe'.i > probe.i

\* C27: parse terminates on every finite input: every loop of parse,
\* parseBaseNode, parseNodeChildren, parseLinespace, parseNodespace,
\* parseWhitespace, parseSlashDash, parseQuotedString, parseMultilineString and
\* parseBlockComment strictly advances the index on each iteration or exits,
\* so no input makes the parser loop forever.
C27_LoopsTerminate ==
    /\ [][advances]_vars
    /\ [](pc = "looping" => probe.iterations <= probe.i /\ probe.i <= Len(input))

\* the loop of parse on a text that ends in a backslash: the node's terminator
\* is the end of the text, and the second iteration starts there and leaves
C27_Witness ==
    /\ gen.shape = "loop"
    /\ gen.loop = "parse"
    /\ input = <<"a", " ", "\\">>
    /\ pc = "left"
    /\ probe.iterations = 2
    /\ probe.i = Len(input)

(***************************************************************************)
(* Indices: every production called at every index of a text, the end of   *)
(* the text included.                                                      *)
(***************************************************************************)
MaxIndexTokens == 3

IndexTokens ==
    { <<"a">>, <<" ">>, <<"\n">>, <<"\r">>, <<"\\">>, <<"\"">>,
      <<"#", "t", "r", "u", "e">>, <<"1">>, <<"{">>, <<"}">>, <<"/", "*">>,
      <<"/", "/">> }

InitIndex ==
    \E chars \in TextsOf(IndexTokens, MaxIndexTokens) :
        StartState(chars, [shape |-> "index"], PlainConfig)

SpecIndex == InitIndex /\ [][ProbeProductions]_vars

\* the productions whose success consumes something
ConsumingProductions ==
    { "parseString", "parseNumber", "parseKeyword", "parseNewline", "parseNodeChildren" }

\* C28: for every text of length n and every start with 0 <= start <= n, a
\* production that returns, with a value or a soft failure, returns an index i
\* with start <= i <= n; and a successful parseString, parseNumber,
\* parseKeyword, parseNewline or parseNodeChildren returns an index greater than
\* start.
C28_IndexInRange ==
    (probe.prod = "all" /\ gen.shape = "index") =>
        \A prod \in Productions :
            LET res == probe.res[prod] IN
            /\ res.k \in {"ok", "fail"} =>
                  probe.start <= res.i /\ res.i <= Len(input)
            /\ (res.k = "ok" /\ prod \in ConsumingProductions) => res.i > probe.start

\* an escline closed by the end of the text, and a node terminator at the end
\* of the text that consumes nothing
C28_Witness ==
    /\ probe.prod = "all"
    /\ gen.shape = "index"
    /\ input = <<"a", " ", "\\">>
    /\ probe.start = 2
    /\ probe.res["parseEscline"] = Ok(TRUE, 3)
    /\ probe.res["parseNodeTerminator"].k = "fail"
    /\ probe.res["parseNodespace"] = Ok(TRUE, 3)

\* each of the consuming productions succeeds somewhere
C28_WitnessNewline ==
    /\ probe.prod = "all"
    /\ gen.shape = "index"
    /\ input = <<"\r", "\n", "1">>
    /\ probe.start = 0
    /\ probe.res["parseNewline"] = Ok(TRUE, 2)

(***************************************************************************)
(* Native values of the built-in tags: a node n holding one native value,  *)
(* as an argument or as the property a, printed and parsed back under      *)
(* nativeTaggedValues.  A native value is given by its type and by the     *)
(* text str(), isoformat(), urlunparse, .pattern or b64encode make of it.  *)
(***************************************************************************)
MaxNativeText == 19

NativeTexts ==
    ("decimal.Decimal" :> { <<"1", ".", "5">>, <<"-", "2">> })
    @@ ("datetime.datetime" :>
            { <<"2", "0", "2", "0", "-", "0", "1", "-", "0", "2", "T",
                "0", "3", ":", "0", "4", ":", "0", "5">>,
              <<"1", "9", "9", "9", "-", "1", "2", "-", "3", "1", "T",
                "0", "0", ":", "0", "0", ":", "0", "0">> })
    @@ ("datetime.time" :> { <<"0", "3", ":", "0", "4", ":", "0", "5">>,
                             <<"2", "3", ":", "5", "9", ":", "0", "0">> })
    @@ ("datetime.date" :> { <<"2", "0", "2", "0", "-", "0", "1", "-", "0", "2">>,
                             <<"1", "9", "9", "9", "-", "1", "2", "-", "3", "1">> })
    @@ ("ipaddress.IPv4Address" :> { <<"1", ".", "2", ".", "3", ".", "4">>,
                                     <<"1", "0", ".", "0", ".", "0", ".", "1">> })
    @@ ("ipaddress.IPv6Address" :> { <<":", ":", "1">>,
                                     <<"f", "e", "8", "0", ":", ":", "1">> })
    @@ ("urllib.parse.ParseResult" :> { <<"a", ":", "/", "/", "b", "/", "c">>,
                                        <<"a", ":", "/", "/", "b">> })
    @@ ("uuid.UUID" :>
            { <<"1", "2", "3", "4", "5", "6", "7", "8", "-", "1", "2", "3", "4", "-",
                "5", "6", "7", "8", "-", "1", "2", "3", "4", "-",
                "5", "6", "7", "8", "1", "2", "3", "4", "5", "6", "7", "8">>,
              <<"0", "0", "0", "0", "0", "0", "0", "0", "-", "0", "0", "0", "0", "-",
                "0", "0", "0", "0", "-", "0", "0", "0", "0", "-",
                "0", "0", "0", "0", "0", "0", "0", "0", "0", "0", "0", "0">> })
    @@ ("re.Pattern" :> { <<"a", ".", "b">>, <<"a", "\\", "d">> })
    @@ ("bytes" :> { <<"A", "A", "A", "A">>, <<"A", "A", "E", "=">> })

NativeTypes == DOMAIN NativeTexts

NativeKeys == { None, <<"a">> }

\* toKdlValue(val) of a value of one of the types in NativeTypes
toKdlValue(val) ==
    CASE val.ty = "decimal.Decimal" -> withTag(String(val.str), <<"d", "e", "c", "i", "m", "a", "l">>)
      [] val.ty = "datetime.datetime" ->
            withTag(String(val.str), <<"d", "a", "t", "e", "-", "t", "i", "m", "e">>)
      [] val.ty = "datetime.time" -> withTag(String(val.str), <<"t", "i", "m", "e">>)
      [] val.ty = "datetime.date" -> withTag(String(val.str), <<"d", "a", "t", "e">>)
      [] val.ty = "ipaddress.IPv4Address" -> withTag(String(val.str), <<"i", "p", "v", "4">>)
      [] val.ty = "ipaddress.IPv6Address" -> withTag(String(val.str), <<"i", "p", "v", "6">>)
      [] val.ty = "urllib.parse.ParseResult" -> withTag(String(val.str), <<"u", "r", "l">>)
      [] val.ty = "uuid.UUID" -> withTag(String(val.str), <<"u", "u", "i", "d">>)
      [] val.ty = "re.Pattern" -> withTag(RawString(val.str), <<"r", "e", "g", "e", "x">>)
      [] val.ty = "bytes" -> withTag(String(val.str), <<"b", "a", "s", "e", "-", "6", "4">>)
      [] OTHER -> val

InitNative ==
    \E ty \in NativeTypes, key \in NativeKeys, respectStringType \in BOOLEAN :
      \E chars \in NativeTexts[ty] :
        /\ input = <<>>
        /\ gen = [shape |-> "native"]
        /\ parseConfig = ParseConfig(FALSE, TRUE, <<>>, <<>>)
        /\ printConfig = PrintConfig(<<"\t">>, FALSE, TRUE, TRUE, TRUE, respectStringType, "e", FALSE)
        /\ pc = "start"
        /\ out = Ok(Node(<<"n">>, None, <<[key |-> key, val |-> Scalar(ty, 0, 0, chars)]>>, <<>>), 0)
        /\ text = <<>>
        /\ out2 = NoResult
        /\ probe = NoProbe

nativeEntry == out.v.entries[1].val

\* toNative(toKdlValue(val), pf) of the value held
ConvertNative ==
    /\ pc = "start"
    /\ gen.shape = "native"
    /\ probe' = [prod |-> "toNative", start |-> 0,
                 res |-> toNative(toKdlValue(nativeEntry), 0)]
    /\ pc' = "converted"
    /\ UNCHANGED <<input, gen, parseConfig, printConfig, out, text, out2>>

\* N.print(config): every argument and property value goes through
\* toKdlValue before it is printed.  Printed are the values whose text has
\* at most MaxNativeText characters.
PrintNative ==
    /\ pc = "start"
    /\ gen.shape = "native"
    /\ Len(nativeEntry.str) <= MaxNativeText
    /\ text' = printNode([out.v EXCEPT !.entries =
                             [n \in 1..Len(out.v.entries) |->
                                 [key |-> out.v.entries[n].key,
                                  val |-> toKdlValue(out.v.entries[n].val)]]],
                         printConfig, 0)
    /\ pc' = "printed"
    /\ UNCHANGED <<input, gen, parseConfig, printConfig, out, out2, probe>>

NextNative == ConvertNative \/ PrintNative \/ Reparse

SpecNative == InitNative /\ [][NextNative]_vars

\* C29: a native value of each type that toKdlValue turns into a tagged
\* string (decimal, date-time, time, date, ipv4, ipv6, url, uuid, regex,
\* bytes) gets a tag that toNative turns back into a value of that type;
\* printed in a node and parsed back under nativeTaggedValues, it comes
\* back as a value of the original type, not as a string that still has
\* its tag.
C29_NativeRoundTrip ==
    /\ (pc = "converted" /\ gen.shape = "native") => probe.res = Ok(nativeEntry, 0)
    /\ (pc = "reparsed" /\ gen.shape = "native") =>
            /\ out2.k = "ok"
            /\ out2.v.nodes = <<out.v>>

\* the same for every type but bytes, a pattern being printed under
\* respectStringType = False
C29_RoundTripWithoutBytes ==
    /\ (pc = "converted" /\ gen.shape = "native" /\ nativeEntry.ty # "bytes") =>
            probe.res = Ok(nativeEntry, 0)
    /\ (pc = "reparsed" /\ gen.shape = "native" /\ nativeEntry.ty # "bytes"
        /\ (nativeEntry.ty = "re.Pattern" => ~printConfig.respectStringType)) =>
            /\ out2.k = "ok"
            /\ out2.v.nodes = <<out.v>>

\* a pattern printed under respectStringType = True is not parsed back
C29_RawPatternRaises ==
    (pc = "reparsed" /\ gen.shape = "native" /\ nativeEntry.ty = "re.Pattern"
     /\ printConfig.respectStringType) => out2.k = "raise"

\* bytes come back as the String toKdlValue made of them, tag base-64
C29_BytesStayTagged ==
    /\ (pc = "converted" /\ gen.shape = "native" /\ nativeEntry.ty = "bytes") =>
            probe.res = Ok(toKdlValue(nativeEntry), 0)
    /\ (pc = "reparsed" /\ gen.shape = "native" /\ nativeEntry.ty = "bytes") =>
        /\ out2.k = "ok"
        /\ out2.v.nodes =
              <<Node(<<"n">>, None,
                     <<[key |-> out.v.entries[1].key, val |-> toKdlValue(nativeEntry)]>>,
                     <<>>)>>

(***************************************************************************)
(* Discarded content: two texts that differ only in the value inside a     *)
(* slashdashed argument, property, child block or node, parsed under the   *)
(* same ParseConfig.                                                       *)
(***************************************************************************)
DiscardedValues ==
    { <<"1">>, <<"(", "u", "8", ")", "3">>, <<"(", "u", "8", ")", "3", "0", "0">>,
      <<"(", "i", "8", ")", "2", "0", "0">>, <<"(", "i", "8", ")", "-", "3">>,
      <<"\"", "s", "\"">>, <<"(", "t", ")", "\"", "s", "\"">> }

DiscardedPlaces == { "argument", "property", "children", "node" }

\* the text with the value inside the slashdashed content of a place
renderDiscarded(place, val) ==
    CASE place = "argument" -> <<"n", " ", "/", "-">> \o val \o <<" ", "1">>
      [] place = "property" -> <<"n", " ", "/", "-", "a", "=">> \o val \o <<" ", "1">>
      [] place = "children" -> <<"n", " ", "1", " ", "/", "-", "{", "c", " ">> \o val \o <<";", "}">>
      [] place = "node" -> <<"/", "-", "c", " ">> \o val \o <<"\n", "n", " ", "1">>

DiscardRegistries ==
    { <<>>,
      <<[key |-> [tag |-> ANY, type |-> ANY], fn |-> "handle"]>>,
      <<[key |-> [tag |-> TagU8, type |-> ANY], fn |-> "unhandled"],
        [key |-> [tag |-> ANY, type |-> ANY], fn |-> "handle"]>> }

InitDiscard ==
    \E place \in DiscardedPlaces, val \in DiscardedValues, other \in DiscardedValues,
       untagged \in BOOLEAN, tagged \in BOOLEAN, registry \in DiscardRegistries :
        /\ val # other
        /\ StartState(renderDiscarded(place, val),
                      [shape |-> "discard", place |-> place, val |-> val, other |-> other],
                      ParseConfig(untagged, tagged, registry, <<>>))

\* parse of the text, and parse of the text with the other value
ParseVariants ==
    /\ pc = "start"
    /\ gen.shape = "discard"
    /\ out' = call("parse", Stream(input, parseConfig), 0)
    /\ out2' = call("parse", Stream(renderDiscarded(gen.place, gen.other), parseConfig), 0)
    /\ pc' = "parsed"
    /\ UNCHANGED <<input, gen, parseConfig, printConfig, text, probe>>

SpecDiscard == InitDiscard /\ [][ParseVariants]_vars

\* syntactically valid: parsed when nothing is converted
wellFormed(chars) == call("parse", Stream(chars, PlainConfig), 0).k = "ok"

bothWellFormed ==
    wellFormed(input) /\ wellFormed(renderDiscarded(gen.place, gen.other))

\* the same Document, or an error in both
sameOutcome ==
    \/ out.k = "ok" /\ out2.k = "ok" /\ out.v.nodes = out2.v.nodes
    \/ out.k = "raise" /\ out2.k = "raise"

\* the document of the text without its slashdashed content: one node n
\* with the argument 1 as parseValue returns it under the configuration
keptDocument == call("parse", Stream(<<"n", " ", "1">>, parseConfig), 0)

\* C30: two texts that differ only inside a slashdashed entry, child block
\* or node, both syntactically valid, have the same outcome under parse:
\* the same Document, or an error in both; no converter and no conversion
\* of a built-in tag is applied to the slashdashed values.
C30_DiscardedContentIgnored ==
    (pc = "parsed" /\ gen.shape = "discard" /\ bothWellFormed) => sameOutcome

\* the two texts are parsed, with the same Document, where parse converts
\* nothing inside the slashdashed content: nativeTaggedValues is off and
\* there is no converter
C30_SameWithoutConversions ==
    (pc = "parsed" /\ gen.shape = "discard" /\ bothWellFormed
     /\ ~parseConfig.nativeTaggedValues /\ parseConfig.valueConverters = <<>>) =>
        /\ sameOutcome
        /\ out.k = "ok"

\* where the two texts are both parsed, the Document is the same, that of
\* the text without the slashdashed content
C30_SameDocumentWhenParsed ==
    (pc = "parsed" /\ gen.shape = "discard" /\ out.k = "ok" /\ out2.k = "ok") =>
        /\ out.v.nodes = out2.v.nodes
        /\ out.v.nodes = keptDocument.v.nodes

\* a slashdashed (u8)300 aborts the parse under nativeTaggedValues, in
\* every place
C30_DiscardedConversionAborts ==
    (pc = "parsed" /\ gen.shape = "discard" /\ parseConfig.nativeTaggedValues
     /\ parseConfig.valueConverters = <<>>
     /\ gen.val = <<"(", "u", "8", ")", "3", "0", "0">>) =>
        out.k = "raise" /\ out.v = "ParseError"

====
